---- MODULE Spec2Model ----
(***************************************************************************)
(* Model of the call-routing / fallback layer of Luna-AI:                  *)
(*   src/ai_api.py  call_ai_api, OpenRouterAPI.query_model,                *)
(*                  reload_openrouter_token_from_env, update_advanced_...  *)
(*   src/app.py     SettingsManager (status cache), reset_to_defaults,     *)
(*                  select_model, on_model_status_results                  *)
(* Strings the router only tests by substring are kept as the literal      *)
(* messages the client raises; the substring tests are tables over them.   *)
(***************************************************************************)
EXTENDS Integers, Sequences, FiniteSets, TLC

\* ------------------------------------------------------------------ bounds
MaxRetry == 3     \* largest retry_attempts setting explored
MaxCap == 3       \* largest alt_attempt_cap setting explored
MaxCalls == 1     \* call_ai_api invocations per behaviour
MaxTurns == 6     \* generate_response calls per behaviour of the engine alone

\* ------------------------------------------------------------ model ids
LocalEngine == "local_engine"
LocalMistral == "local/mistral-7b-instruct"
DeepSeek == "deepseek/deepseek-r1-0528:free"
Gpt20 == "openai/gpt-oss-20b:free"
Gpt120 == "openai/gpt-oss-120b:free"
ExtraModel == "extra/model:free"
UnknownModel == "legacy/unknown-model"
NoModel == "None"

ModelIds == {LocalEngine, LocalMistral, DeepSeek, Gpt20, Gpt120, ExtraModel, UnknownModel}

\* get_available_models(): the built-in catalog, in dict order
get_available_models ==
  << [id |-> LocalEngine, name |-> "Local Conversation Engine", type |-> "local", provider |-> "local"],
     [id |-> LocalMistral, name |-> "Mistral 7B", type |-> "local", provider |-> "local"],
     [id |-> DeepSeek, name |-> "DeepSeek R1", type |-> "openrouter", provider |-> "openrouter"],
     [id |-> Gpt20, name |-> "OpenAI GPT-OSS 20B", type |-> "openrouter", provider |-> "openrouter"],
     [id |-> Gpt120, name |-> "OpenAI GPT-OSS 120B", type |-> "openrouter", provider |-> "openrouter"] >>

\* SettingsManager.default_settings["available_models"]: no 'provider' key
default_available_models ==
  << [id |-> LocalEngine, name |-> "Conversation Engine", type |-> "local", provider |-> "missing"],
     [id |-> LocalMistral, name |-> "Mistral 7B", type |-> "local", provider |-> "missing"],
     [id |-> DeepSeek, name |-> "DeepSeek R1", type |-> "openrouter", provider |-> "missing"],
     [id |-> Gpt20, name |-> "OpenAI GPT-OSS 20B", type |-> "openrouter", provider |-> "missing"],
     [id |-> Gpt120, name |-> "OpenAI GPT-OSS 120B", type |-> "openrouter", provider |-> "missing"] >>

\* A catalog handed in by the settings provider: a superset of the built-in
\* one whose remote entries carry the provider tag
supplied_available_models ==
  get_available_models \o
  << [id |-> ExtraModel, name |-> "Extra Model", type |-> "openrouter", provider |-> "openrouter"] >>

CatalogNames == {"default", "builtin", "supplied", "empty"}

CatalogByName(n) ==
  CASE n = "default" -> default_available_models
    [] n = "builtin" -> get_available_models
    [] n = "supplied" -> supplied_available_models
    [] OTHER -> << >>

InCatalog(cat, mid) == \E i \in 1..Len(cat) : cat[i].id = mid
Entry(cat, mid) == cat[CHOOSE i \in 1..Len(cat) : cat[i].id = mid]

\* available_models.get(current_model, available_models['local_engine'])
current_model_info(mid) ==
  IF InCatalog(get_available_models, mid) THEN Entry(get_available_models, mid)
  ELSE Entry(get_available_models, LocalEngine)

\* --------------------------------------------------- error message tables
MsgPaused == "HF endpoint paused"
MsgLoading == "HF endpoint loading"
MsgAuth == "HF authentication/authorization error"
MsgRateLimit == "HF rate limit exceeded"
MsgBadRequest == "Bad Request"
MsgBadRequestText == "Bad Request: rate limit reached, authorization required"
MsgNotFound == "Model not found or endpoint removed"
MsgTimeout == "Read timed out. (read timeout=30)"
MsgEmpty == "Empty response from OpenRouter model"
MsgKeyError == "'model_errors'"
MsgProbe == "module 'ai_api' has no attribute 'check_hf_model_status'"
\* a message of another writer of the cache, in capitals
MsgPausedUpper == "Space is PAUSED"
NoError == "no error"
EmptyMessage == ""

\* substring tests of call_ai_api on last_err.lower()
HasPaused(m) == m \in {MsgPaused, MsgPausedUpper}
HasLoading(m) == m = MsgLoading
HasRateLimit(m) == m \in {MsgRateLimit, MsgBadRequestText}
HasAuthWord(m) == m \in {MsgAuth, MsgBadRequestText}


\* ------------------------------------------------ Remote Model Client
\* Outcomes of OpenRouterAPI.query_model: a returned text, or a raised
\* exception with its class, status_code attribute and message
OkReply == [kind |-> "ok", text |-> "reply", cls |-> "none", status_code |-> 200, msg |-> NoError]
OkBlank == [kind |-> "ok", text |-> "", cls |-> "none", status_code |-> 200, msg |-> NoError]
Raised(cls, code, m) == [kind |-> "exc", text |-> "", cls |-> cls, status_code |-> code, msg |-> m]

query_model ==
  { OkReply, OkBlank,
    Raised("HFRequestError", -1, MsgPaused),
    Raised("HFRequestError", -1, MsgLoading),
    Raised("HFRequestError", 401, MsgAuth),
    Raised("HFRequestError", 429, MsgRateLimit),
    Raised("HFRequestError", 400, MsgBadRequest),
    Raised("HFRequestError", 400, MsgBadRequestText),
    Raised("HFRequestError", 404, MsgNotFound),
    Raised("Timeout", 0, MsgTimeout) }

\* what the endpoint sends back: a network failure, or a status code with
\* an error text (response.text, or the 'error' member of a JSON body)
MsgConnection == "Connection refused"
MsgFailed == "HF request failed: 500"
ErrTexts ==
  {"", "Space is paused", "Model is loading", "paused while loading",
   "rate limit reached, authorization required"}
StatusCodes == {200, 400, 401, 403, 404, 429, 500, 503, 524}
Responses ==
  [net : {"timeout", "error"}, status_code : {0}, text : {""}]
    \cup [net : {"answered"}, status_code : StatusCodes, text : ErrTexts]
NoResponse == [net |-> "none", status_code |-> 0, text |-> ""]
\* "paused" in lower_err, "loading" in lower_err
TextHasPaused(t) == t \in {"Space is paused", "paused while loading"}
TextHasLoading(t) == t \in {"Model is loading", "paused while loading"}

\* variant: the status code is classified before the error text is read
query_model_ofStatusFirst(r) ==
  IF r.net = "timeout" THEN Raised("Timeout", 0, MsgTimeout)
  ELSE IF r.net = "error" THEN Raised("HFRequestError", -1, MsgConnection)
  ELSE IF r.status_code = 200 THEN OkReply
  ELSE IF r.status_code \in {401, 403} THEN Raised("HFRequestError", r.status_code, MsgAuth)
  ELSE IF r.status_code = 429 THEN Raised("HFRequestError", 429, MsgRateLimit)
  ELSE IF r.status_code = 400
  THEN Raised("HFRequestError", 400, IF r.text = "" THEN MsgBadRequest ELSE MsgBadRequestText)
  ELSE IF r.status_code = 404 THEN Raised("HFRequestError", 404, MsgNotFound)
  ELSE IF TextHasPaused(r.text) THEN Raised("HFRequestError", -1, MsgPaused)
  ELSE IF TextHasLoading(r.text) \/ r.status_code \in {503, 524}
  THEN Raised("HFRequestError", -1, MsgLoading)
  ELSE Raised("HFRequestError", r.status_code, MsgFailed)
\* OpenRouterAPI.query_model on one response: the paused and loading tests
\* read the error text before any status code is looked at, and raise
\* RuntimeError, which the last handler wraps in HFRequestError(-1, ...)
query_model_of(r) ==
  IF r.net = "timeout" THEN Raised("Timeout", 0, MsgTimeout)
  ELSE IF r.net = "error" THEN Raised("HFRequestError", -1, MsgConnection)
  ELSE IF r.status_code = 200 THEN OkReply
  ELSE IF TextHasPaused(r.text) THEN Raised("HFRequestError", -1, MsgPaused)
  ELSE IF TextHasLoading(r.text) \/ r.status_code \in {503, 524}
  THEN Raised("HFRequestError", -1, MsgLoading)
  ELSE IF r.status_code \in {401, 403} THEN Raised("HFRequestError", r.status_code, MsgAuth)
  ELSE IF r.status_code = 429 THEN Raised("HFRequestError", 429, MsgRateLimit)
  ELSE IF r.status_code = 400
  THEN Raised("HFRequestError", 400, IF r.text = "" THEN MsgBadRequest ELSE MsgBadRequestText)
  ELSE IF r.status_code = 404 THEN Raised("HFRequestError", 404, MsgNotFound)
  ELSE Raised("HFRequestError", r.status_code, MsgFailed)

NoRequest == [model_id |-> NoModel, response |-> NoResponse, out |-> OkBlank]

\* ------------------------------------------------ Model Status Cache
\* SettingsManager.model_errors / model_status / settings['model_errors'];
\* has_key is "'model_errors' in self.settings"
StatusValues == {"unset", "available", "paused", "loading", "error"}

EmptyCache ==
  [errors |-> [m \in ModelIds |-> NoError],
   status |-> [m \in ModelIds |-> "unset"],
   persisted |-> [m \in ModelIds |-> NoError],
   has_key |-> TRUE]

get_model_error(c, mid) == c.errors[mid]
get_model_status(c, mid) == IF c.status[mid] = "unset" THEN "available" ELSE c.status[mid]

\* variant: the test for 'paused' is made on the message as written
set_model_errorCaseSensitive(c, mid, err) ==
  LET c1 == [c EXCEPT !.errors[mid] = err,
                      !.status[mid] = IF err = MsgPaused THEN "paused" ELSE "error"]
  IN IF c.has_key
     THEN [cache |-> [c1 EXCEPT !.persisted[mid] = err], raised |-> FALSE]
     ELSE [cache |-> c1, raised |-> TRUE]
\* each writer yields the cache it leaves behind and whether it raised
set_model_error(c, mid, err) ==
  LET c1 == [c EXCEPT !.errors[mid] = err,
                      !.status[mid] = IF HasPaused(err) THEN "paused" ELSE "error"]
  IN IF c.has_key
     THEN [cache |-> [c1 EXCEPT !.persisted[mid] = err], raised |-> FALSE]
     ELSE [cache |-> c1, raised |-> TRUE]

clear_model_error(c, mid) ==
  LET c1 == [c EXCEPT !.errors[mid] = NoError,
                      !.status[mid] = IF @ = "unset" THEN "unset" ELSE "available"]
  IN IF c.has_key
     THEN [cache |-> [c1 EXCEPT !.persisted[mid] = NoError], raised |-> FALSE]
     ELSE [cache |-> c1, raised |-> TRUE]

\* variant: marking a model available leaves its stored error in place
set_model_status_keep(c, mid, status, error) ==
  LET msg == IF error # NoError /\ error # EmptyMessage THEN error
             ELSE IF status = "paused" THEN "Paused" ELSE "Unavailable"
  IN IF status = "available"
     THEN [c EXCEPT !.status[mid] = status, !.has_key = TRUE]
     ELSE [c EXCEPT !.status[mid] = status, !.errors[mid] = msg,
                    !.persisted[mid] = msg, !.has_key = TRUE]
\* error=None and error='' both take the default text ("error or ...")
set_model_status(c, mid, status, error) ==
  IF status = "available"
  THEN [c EXCEPT !.status[mid] = status, !.errors[mid] = NoError,
                 !.persisted[mid] = NoError, !.has_key = TRUE]
  ELSE LET msg == IF error # NoError /\ error # EmptyMessage THEN error
                  ELSE IF status = "paused" THEN "Paused" ELSE "Unavailable"
       IN [c EXCEPT !.status[mid] = status, !.errors[mid] = msg,
                    !.persisted[mid] = msg, !.has_key = TRUE]


\* the writers statement by statement, as a thread switch can separate
\* them: a writer is [op, status, msg, step], step the statement it runs
\* next (4: returned)
NoWriter == [op |-> "none", status |-> "", msg |-> NoError, step |-> 4]
Writer(op, status, msg) == [op |-> op, status |-> status, msg |-> msg, step |-> 1]

\* variant: the writer runs under a lock, all its statements in one step
WriterStepLocked(c, mid, w) ==
  [cache |-> IF w.op = "set_model_error" THEN set_model_error(c, mid, w.msg).cache
             ELSE IF w.op = "clear_model_error" THEN clear_model_error(c, mid).cache
             ELSE set_model_status(c, mid, w.status, w.msg),
   w |-> [w EXCEPT !.step = 4]]
\* one statement of a writer on the entry of mid
WriterStep(c, mid, w) ==
  [cache |->
     IF w.op = "set_model_error"
     THEN CASE w.step = 1 -> [c EXCEPT !.errors[mid] = w.msg]
            [] w.step = 2 -> [c EXCEPT !.status[mid] = IF HasPaused(w.msg) THEN "paused"
                                                       ELSE "error"]
            [] OTHER -> [c EXCEPT !.persisted[mid] = w.msg]
     ELSE IF w.op = "clear_model_error"
     THEN CASE w.step = 1 -> [c EXCEPT !.errors[mid] = NoError]
            [] w.step = 2 -> [c EXCEPT !.status[mid] = IF @ = "unset" THEN "unset"
                                                       ELSE "available"]
            [] OTHER -> [c EXCEPT !.persisted[mid] = NoError]
     ELSE IF w.status = "available"
     THEN CASE w.step = 1 -> [c EXCEPT !.status[mid] = w.status]
            [] w.step = 2 -> [c EXCEPT !.errors[mid] = NoError]
            [] OTHER -> [c EXCEPT !.persisted[mid] = NoError, !.has_key = TRUE]
     ELSE LET msg == IF w.msg # NoError /\ w.msg # EmptyMessage THEN w.msg
                     ELSE IF w.status = "paused" THEN "Paused" ELSE "Unavailable"
          IN CASE w.step = 1 -> [c EXCEPT !.status[mid] = w.status]
               [] w.step = 2 -> [c EXCEPT !.errors[mid] = msg]
               [] OTHER -> [c EXCEPT !.persisted[mid] = msg, !.has_key = TRUE],
   w |-> [w EXCEPT !.step = IF @ = 3 THEN 4 ELSE @ + 1]]

\* the same writer called alone
WriterAlone(c, mid, w) ==
  IF w.op = "set_model_error" THEN set_model_error(c, mid, w.msg).cache
  ELSE IF w.op = "clear_model_error" THEN clear_model_error(c, mid).cache
  ELSE set_model_status(c, mid, w.status, w.msg)

NoRace == [thread |-> NoWriter, main |-> NoWriter, start |-> EmptyCache, issued |-> FALSE]

\* ------------------------------------------------------- settings inputs
RetryChoices == 0..MaxRetry
CapChoices == 0..MaxCap
PriorityChoices == { << >>, <<Gpt120, DeepSeek>> }
EnvAltChoices == { << >>, <<Gpt120, LocalEngine>> }
SelectableIds == {LocalEngine, Gpt20, UnknownModel}

\* SettingsManager.default_settings (the keys the router reads)
default_settings ==
  [retry_attempts |-> 2, auto_fallback |-> TRUE, alt_attempt_cap |-> 3,
   ignore_status_pings |-> FALSE, alternate_priority |-> << >>,
   current_ai_model |-> LocalEngine, available_models |-> "default",
   enable_web_search |-> TRUE, enable_system_commands |-> TRUE,
   ai_creativity |-> 70, conversation_memory |-> 10, save_chat_history |-> TRUE]

\* module-level advanced_settings of ai_api
default_advanced ==
  [enable_search |-> TRUE, enable_system_commands |-> TRUE, current_model |-> LocalEngine,
   remember_local_profile |-> TRUE]

\* ------------------------------------------------------- router helpers
\* attempts = 2, overridden by a positive retry_attempts setting
\* variant: the loop runs longer than retry_attempts allows
AttemptsPadded(sm, st) == IF sm /\ st.retry_attempts > 0 THEN 2 * st.retry_attempts + 2 ELSE 4
Attempts(sm, st) == IF sm /\ st.retry_attempts > 0 THEN st.retry_attempts ELSE 2

\* variant: the same two seconds before every retry
backoffFlat(attempt) == IF attempt > 0 THEN 2 ELSE 0
\* "if attempt > 0: time.sleep(2 * attempt)": the seconds slept at the head of
\* the iteration with index attempt
backoff(attempt) == IF attempt > 0 THEN 2 * attempt ELSE 0

\* auth_error / transient tests on the lower-cased last_err
IsAuthError(m) == HasAuthWord(m)
\* variant: every failure is retried while attempts remain
IsTransientAlways(m) == TRUE
\* variant: a rate limit is not retried
IsTransientNoRateLimit(m) == HasPaused(m) \/ HasLoading(m)
IsTransient(m) == HasPaused(m) \/ HasLoading(m) \/ HasRateLimit(m)

\* _get_ui_available_models(): the caller-supplied catalog when non-empty
ui_available_models(sm, st) ==
  IF sm /\ CatalogByName(st.available_models) # << >>
  THEN CatalogByName(st.available_models)
  ELSE get_available_models

\* the recovery settings read before the alternates walk (defaults if no manager)
AutoFallback(sm, st) == IF sm THEN st.auto_fallback ELSE TRUE
AltCap(sm, st) == IF sm THEN st.alt_attempt_cap ELSE 3
IgnorePings(sm, st) == IF sm THEN st.ignore_status_pings ELSE FALSE
Priority(sm, st) == IF sm THEN st.alternate_priority ELSE << >>

\* variant: any retryable error of the primary opens the walk
ProceedToAltsAnyTransient(sm, st, last_err) ==
  IsTransient(last_err) \/ IgnorePings(sm, st)
ProceedToAlts(sm, st, last_err) ==
  HasPaused(last_err) \/ HasLoading(last_err) \/ IgnorePings(sm, st)

EnterWalk(sm, st, last_err) ==
  AutoFallback(sm, st) /\ AltCap(sm, st) > 0 /\ ProceedToAlts(sm, st, last_err)

IsAltEntry(e, cur) == e.id # cur /\ e.type = "openrouter" /\ e.provider = "openrouter"

Ids(cat) == [i \in 1..Len(cat) |-> cat[i].id]

\* pr_index = {mid: i for i, mid in enumerate(priority)}; .get(mid, len(priority))
PrIndexDict(priority, mid) ==
  IF \E i \in 1..Len(priority) : priority[i] = mid
  THEN (CHOOSE i \in 1..Len(priority) :
          priority[i] = mid /\ \A j \in (i+1)..Len(priority) : priority[j] # mid) - 1
  ELSE Len(priority)

\* priority.index(mid) if mid in priority else len(priority)
PrIndexList(priority, mid) ==
  IF \E i \in 1..Len(priority) : priority[i] = mid
  THEN (CHOOSE i \in 1..Len(priority) :
          priority[i] = mid /\ \A j \in 1..(i-1) : priority[j] # mid) - 1
  ELSE Len(priority)

\* list.sort(key=...) is stable: group by key in increasing key order
StableSort(s, key, maxKey) ==
  LET f[v \in 0..maxKey] ==
        IF v = 0 THEN SelectSeq(s, LAMBDA x : key[x] = 0)
        ELSE f[v-1] \o SelectSeq(s, LAMBDA x : key[x] = v)
  IN f[maxKey]

\* alt_models: other remote models of the UI catalog, priority-ordered
alt_models(sm, st, cur) ==
  LET raw == Ids(SelectSeq(ui_available_models(sm, st), LAMBDA e : IsAltEntry(e, cur)))
      pr == Priority(sm, st)
  IN IF pr = << >> THEN raw
     ELSE StableSort(raw, [x \in ModelIds |-> PrIndexDict(pr, x)], Len(pr))

\* variant: the budget test lets one more attempt through
Phase1StopLate(tried, cap) == tried > cap
\* first loop of the walk: hf_api is not defined in the module, so each
\* iteration raises NameError, which the generic handler counts (tried += 1)
\* without any request being sent; the loop stops at tried >= cap
Phase1Stop(tried, cap) == tried >= cap

Phase1Tried(n, cap) ==
  LET f[i \in 0..n] ==
        IF i = 0 THEN 0
        ELSE IF Phase1Stop(f[i-1], cap) THEN f[i-1] ELSE f[i-1] + 1
  IN f[n]

\* variant: the catalog models are taken whatever their type
direct_listAnyType(sm, st, env_alts, cur) ==
  LET ui == ui_available_models(sm, st)
      fromEnv == SelectSeq(env_alts, LAMBDA a : InCatalog(ui, a) /\ IsAltEntry(Entry(ui, a), cur))
      base == IF fromEnv # << >> THEN fromEnv
              ELSE Ids(SelectSeq(ui, LAMBDA e : e.id # cur))
      pr == Priority(sm, st)
  IN IF pr = << >> THEN base
     ELSE StableSort(base, [x \in ModelIds |-> PrIndexList(pr, x)], Len(pr))
\* direct_list: env alternates present in the UI catalog, else the UI remotes
direct_list(sm, st, env_alts, cur) ==
  LET ui == ui_available_models(sm, st)
      fromEnv == SelectSeq(env_alts, LAMBDA a : InCatalog(ui, a) /\ IsAltEntry(Entry(ui, a), cur))
      base == IF fromEnv # << >> THEN fromEnv
              ELSE Ids(SelectSeq(ui, LAMBDA e : IsAltEntry(e, cur)))
      pr == Priority(sm, st)
  IN IF pr = << >> THEN base
     ELSE StableSort(base, [x \in ModelIds |-> PrIndexList(pr, x)], Len(pr))

\* for alt_id in direct_list: if alt_id == current_model or tried >= cap: continue
\* -> index of the next candidate that is invoked, 0 if none
NextDirect(list, from, tried, cap, cur) ==
  IF \E j \in from..Len(list) : list[j] # cur /\ tried < cap
  THEN CHOOSE j \in from..Len(list) :
         /\ list[j] # cur /\ tried < cap
         /\ \A k \in from..(j-1) : ~(list[k] # cur /\ tried < cap)
  ELSE 0

\* what the handlers of the direct loop do with an exception of query_model:
\* "except OpenRouterRequestError" names an undefined class, so evaluating
\* the clause raises NameError, which leaves the loop for the outer
\* "except Exception: pass"
DirectHandler(out) == "abort"


\* ----------------------------------------------------- set_current_model
\* The ids and names the resolution reads, character by character
Chars(s) ==
  CASE s = "local_engine" ->
       <<"l", "o", "c", "a", "l", "_", "e", "n", "g", "i", "n", "e">>
    [] s = "local/mistral-7b-instruct" ->
       <<"l", "o", "c", "a", "l", "/", "m", "i", "s", "t", "r", "a", "l", "-", "7", "b", "-", "i", "n", "s", "t", "r", "u", "c", "t">>
    [] s = "deepseek/deepseek-r1-0528:free" ->
       <<"d", "e", "e", "p", "s", "e", "e", "k", "/", "d", "e", "e", "p", "s", "e", "e", "k", "-", "r", "1", "-", "0", "5", "2", "8", ":", "f", "r", "e", "e">>
    [] s = "openai/gpt-oss-20b:free" ->
       <<"o", "p", "e", "n", "a", "i", "/", "g", "p", "t", "-", "o", "s", "s", "-", "2", "0", "b", ":", "f", "r", "e", "e">>
    [] s = "openai/gpt-oss-120b:free" ->
       <<"o", "p", "e", "n", "a", "i", "/", "g", "p", "t", "-", "o", "s", "s", "-", "1", "2", "0", "b", ":", "f", "r", "e", "e">>
    [] s = "extra/model:free" ->
       <<"e", "x", "t", "r", "a", "/", "m", "o", "d", "e", "l", ":", "f", "r", "e", "e">>
    [] s = "legacy/unknown-model" ->
       <<"l", "e", "g", "a", "c", "y", "/", "u", "n", "k", "n", "o", "w", "n", "-", "m", "o", "d", "e", "l">>
    [] s = "Local Conversation Engine" ->
       <<"L", "o", "c", "a", "l", " ", "C", "o", "n", "v", "e", "r", "s", "a", "t", "i", "o", "n", " ", "E", "n", "g", "i", "n", "e">>
    [] s = "Mistral 7B" ->
       <<"M", "i", "s", "t", "r", "a", "l", " ", "7", "B">>
    [] s = "DeepSeek R1" ->
       <<"D", "e", "e", "p", "S", "e", "e", "k", " ", "R", "1">>
    [] s = "OpenAI GPT-OSS 20B" ->
       <<"O", "p", "e", "n", "A", "I", " ", "G", "P", "T", "-", "O", "S", "S", " ", "2", "0", "B">>
    [] s = "OpenAI GPT-OSS 120B" ->
       <<"O", "p", "e", "n", "A", "I", " ", "G", "P", "T", "-", "O", "S", "S", " ", "1", "2", "0", "B">>
    [] s = "deepseek/deepseek-chat-v3-0324:free" ->
       <<"d", "e", "e", "p", "s", "e", "e", "k", "/", "d", "e", "e", "p", "s", "e", "e", "k", "-", "c", "h", "a", "t", "-", "v", "3", "-", "0", "3", "2", "4", ":", "f", "r", "e", "e">>
    [] s = "nex-agi/deepseek-v3.1-nex-n1:free" ->
       <<"n", "e", "x", "-", "a", "g", "i", "/", "d", "e", "e", "p", "s", "e", "e", "k", "-", "v", "3", ".", "1", "-", "n", "e", "x", "-", "n", "1", ":", "f", "r", "e", "e">>
    [] s = "deepseek-chat-v3-0324:free" ->
       <<"d", "e", "e", "p", "s", "e", "e", "k", "-", "c", "h", "a", "t", "-", "v", "3", "-", "0", "3", "2", "4", ":", "f", "r", "e", "e">>
    [] s = "deepseek/deepseek-chat-v3-0324" ->
       <<"d", "e", "e", "p", "s", "e", "e", "k", "/", "d", "e", "e", "p", "s", "e", "e", "k", "-", "c", "h", "a", "t", "-", "v", "3", "-", "0", "3", "2", "4">>
    [] s = "deepseek-chat-v3-0324" ->
       <<"d", "e", "e", "p", "s", "e", "e", "k", "-", "c", "h", "a", "t", "-", "v", "3", "-", "0", "3", "2", "4">>
    [] s = "OpenAI/GPT-OSS-20B:FREE" ->
       <<"O", "p", "e", "n", "A", "I", "/", "G", "P", "T", "-", "O", "S", "S", "-", "2", "0", "B", ":", "F", "R", "E", "E">>
    [] s = "mistral-7b" ->
       <<"m", "i", "s", "t", "r", "a", "l", "-", "7", "b">>
    [] s = "gpt-oss-120b:free" ->
       <<"g", "p", "t", "-", "o", "s", "s", "-", "1", "2", "0", "b", ":", "f", "r", "e", "e">>
    [] s = "my-local_engine" ->
       <<"m", "y", "-", "l", "o", "c", "a", "l", "_", "e", "n", "g", "i", "n", "e">>
    [] s = "HF endpoint paused" ->
       <<"H", "F", " ", "e", "n", "d", "p", "o", "i", "n", "t", " ", "p", "a", "u", "s", "e", "d">>
    [] s = "HF rate limit exceeded" ->
       <<"H", "F", " ", "r", "a", "t", "e", " ", "l", "i", "m", "i", "t", " ", "e", "x", "c", "e", "e", "d", "e", "d">>
    [] s = "Space is PAUSED" ->
       <<"S", "p", "a", "c", "e", " ", "i", "s", " ", "P", "A", "U", "S", "E", "D">>
    [] s = "paused" ->
       <<"p", "a", "u", "s", "e", "d">>
    [] OTHER -> << >>

UpperCase ==
  <<"A", "B", "C", "D", "E", "F", "G", "H", "I", "J", "K", "L", "M", "N", "O", "P", "Q", "R", "S", "T", "U", "V", "W", "X", "Y", "Z">>
LowerCase ==
  <<"a", "b", "c", "d", "e", "f", "g", "h", "i", "j", "k", "l", "m", "n", "o", "p", "q", "r", "s", "t", "u", "v", "w", "x", "y", "z">>
Digits == <<"0", "1", "2", "3", "4", "5", "6", "7", "8", "9">>
CharsOf(q) == { q[i] : i \in 1..Len(q) }
\* ch.lower() and ch.isalnum() on the characters above
UpperChars == CharsOf(UpperCase)
AlnumChars == CharsOf(UpperCase) \cup CharsOf(LowerCase) \cup CharsOf(Digits)
LowerOf ==
  [ch \in UpperChars |-> LowerCase[CHOOSE i \in 1..Len(UpperCase) : UpperCase[i] = ch]]
lower(ch) == IF ch \in UpperChars THEN LowerOf[ch] ELSE ch
isalnum(ch) == ch \in AlnumChars
\* _norm: ''.join(ch for ch in s.lower() if ch.isalnum())
norm(cs) ==
  LET kept == SelectSeq(cs, isalnum)
  IN [i \in 1..Len(kept) |-> lower(kept[i])]
\* s.split('/')[-1]
AfterLastSlash(cs) ==
  IF \E i \in 1..Len(cs) : cs[i] = "/"
  THEN SubSeq(cs, (CHOOSE i \in 1..Len(cs) :
                     cs[i] = "/" /\ \A k \in (i + 1)..Len(cs) : cs[k] # "/") + 1, Len(cs))
  ELSE cs
\* target.endswith(t)
EndsWith(target, t) ==
  Len(t) <= Len(target) /\ SubSeq(target, Len(target) - Len(t) + 1, Len(target)) = t

\* legacy_map
LegacyIds == {"deepseek/deepseek-chat-v3-0324:free", "nex-agi/deepseek-v3.1-nex-n1:free"}
legacy_map(model_id) == IF model_id \in LegacyIds THEN DeepSeek ELSE model_id

\* the test that makes a catalog entry a candidate: the suffix is split off
\* norm_key, which holds no slash any more
AliasMatches(target, e) ==
  LET norm_key == norm(Chars(e.id))
  IN \/ target = norm_key
     \/ target = norm(Chars(e.name))
     \/ EndsWith(target, IF "/" \in CharsOf(Chars(e.id)) THEN AfterLastSlash(norm_key)
                          ELSE norm_key)

\* set_current_model(model_id): [adv: advanced_settings after the call,
\* ret: the value returned]
set_current_model(adv, model_id) ==
  LET mid == legacy_map(model_id)
      cat == get_available_models
      target == norm(Chars(mid))
      candidates == Ids(SelectSeq(cat, LAMBDA e : AliasMatches(target, e)))
  IN IF InCatalog(cat, mid)
     THEN [adv |-> [adv EXCEPT !.current_model = mid], ret |-> TRUE]
     ELSE IF candidates # << >>
     THEN [adv |-> [adv EXCEPT !.current_model = candidates[1]], ret |-> TRUE]
     ELSE [adv |-> adv, ret |-> FALSE]

\* a call as the history keeps it: the id passed, the value returned and
\* advanced_settings['current_model'] when the call returned
PickOf(adv, model_id) ==
  LET r == set_current_model(adv, model_id)
  IN [model_id |-> model_id, ret |-> IF r.ret THEN "True" ELSE "False",
      current |-> r.adv.current_model]

\* --------------------------------------------------- Intent Dispatcher
\* A message is the set of dispatcher-relevant features of its text
\* "searchkw": one of 'search', 'google', 'find', 'look up' (the keywords of
\* both branches of the search rule); "question": any other search keyword,
\* question pattern or sports term; "tiny": the extracted search query is at
\* most two characters long after the filler is stripped; "open_app": "open"
\* with the name of an application; "screenshot": the screenshot command
MsgTokens ==
  {"identity", "weather", "searchkw", "question", "tiny", "open_app", "screenshot"}
Messages == { m \in SUBSET MsgTokens : Cardinality(m) <= 3 }
\* the messages with at most one feature
PlainMessages == { m \in Messages : Cardinality(m) <= 1 }

\* is_search_query and the query test "search_query and len(search_query) > 2"
SearchDetected(m) == {"searchkw", "question"} \cap m # {}
SearchPerformed(m) == SearchDetected(m) /\ "tiny" \notin m
\* the keywords of the commands-disabled message, and the messages for which
\* execute_system_command returns a text instead of None
CommandKeyword(m) == {"open_app", "screenshot"} \cap m # {}

\* variant: the search rule is evaluated before the weather rule
DispatchSearchFirst(m, search_enabled, system_enabled, adv_system) ==
  IF "identity" \in m THEN "identity"
  ELSE IF search_enabled /\ SearchPerformed(m) THEN "search"
  ELSE IF ~search_enabled /\ "searchkw" \in m THEN "search_disabled"
  ELSE IF "weather" \in m THEN "weather"
  ELSE IF system_enabled /\ (~adv_system \/ CommandKeyword(m)) THEN "syscmd"
  ELSE IF ~system_enabled /\ CommandKeyword(m) THEN "cmd_disabled"
  ELSE "general"
\* variant: with search disabled a search keyword is passed over in silence
DispatchSilentSearch(m, search_enabled, system_enabled, adv_system) ==
  IF "identity" \in m THEN "identity"
  ELSE IF "weather" \in m THEN "weather"
  ELSE IF search_enabled /\ SearchPerformed(m) THEN "search"
  ELSE IF system_enabled /\ (~adv_system \/ CommandKeyword(m)) THEN "syscmd"
  ELSE IF ~system_enabled /\ CommandKeyword(m) THEN "cmd_disabled"
  ELSE "general"
\* ordered rule evaluation of call_ai_api before the model is consulted
\* (adv_system: advanced_settings' enable_system_commands, which
\* execute_system_command reads itself)
Dispatch(m, search_enabled, system_enabled, adv_system) ==
  IF "identity" \in m THEN "identity"
  ELSE IF "weather" \in m THEN "weather"
  ELSE IF search_enabled /\ SearchPerformed(m) THEN "search"
  ELSE IF ~search_enabled /\ "searchkw" \in m THEN "search_disabled"
  ELSE IF system_enabled /\ (~adv_system \/ CommandKeyword(m)) THEN "syscmd"
  ELSE IF ~system_enabled /\ CommandKeyword(m) THEN "cmd_disabled"
  ELSE "general"

\* enable_search if enable_search is not None else advanced_settings.get(...)
FlagArgs == {"None", "False", "True"}
FlagOr(arg, dflt) == IF arg = "None" THEN dflt ELSE arg = "True"

SpawnOutcomes == {"started", "oserror"}
\* variant: the executor does not look at the advanced settings
execute_system_commandUnguarded(m, spawn, adv_system) ==
  IF "open_app" \in m THEN (IF spawn = "oserror" THEN "raise" ELSE "text")
  ELSE IF "screenshot" \in m THEN "text"
  ELSE "none"
\* execute_system_command: first the enable_system_commands test on the
\* advanced settings; the application launch (subprocess.Popen) is not
\* inside any try; only the screenshot branch catches its failures
execute_system_command(m, spawn, adv_system) ==
  IF ~adv_system THEN "disabled"
  ELSE IF "open_app" \in m THEN (IF spawn = "oserror" THEN "raise" ELSE "text")
  ELSE IF "screenshot" \in m THEN "text"
  ELSE "none"

\* ------------------------------------------------------ Local Responder
LocalReply == "local reply"

Min(a, b) == IF a < b THEN a ELSE b
Max(a, b) == IF a > b THEN a ELSE b
\* s[-n:] for n >= 1
LastN(s, n) == IF Len(s) <= n THEN s ELSE SubSeq(s, Len(s) - n + 1, Len(s))

\* set_creativity: max(0.1, min(1.0, level)), levels in hundredths
set_creativity(e, level) == [e EXCEPT !.creativity_level = Max(10, Min(100, level))]

\* set_memory_size: clamp to [5, 50], then keep the newest entries
set_memory_size(e, size) ==
  LET mx == Max(5, Min(50, size))
  IN [e EXCEPT !.max_memory = mx, !.context_memory = LastN(@, mx), !.streak = 0]

\* variant: the newest entry is dropped when the limit is exceeded
add_to_memoryDropNewest(e, entry) ==
  LET mem == Append(e.context_memory, entry)
  IN [e EXCEPT !.context_memory = IF Len(mem) > e.max_memory THEN e.context_memory ELSE mem]
\* add_to_memory: append, then pop(0) once if the limit is exceeded
add_to_memory(e, entry) ==
  LET mem == Append(e.context_memory, entry)
  IN [e EXCEPT !.context_memory = IF Len(mem) > e.max_memory THEN Tail(mem) ELSE mem]

\* get_creativity_tier
get_creativity_tier(level) ==
  IF level <= 30 THEN "conservative" ELSE IF level <= 70 THEN "balanced" ELSE "creative"

\* analyze_intent yields one of these categories
Intents ==
  {"greetings", "how_are_you", "thanks", "compliments", "capabilities", "farewells",
   "confused", "default"}
\* load_response_patterns: the keys of the table and the length of each list
PatternKeys ==
  {"greetings", "how_are_you", "thanks", "capabilities", "confused", "default_responses"}
ResponseCount(key, tier) ==
  IF tier = "conservative" \/ key \in {"capabilities", "confused"} THEN 3
  ELSE IF key = "greetings" THEN 5
  ELSE 4
\* generate_response: the list of the intent, default_responses when the
\* table has no key for it
ResponseList(intent) == IF intent \in PatternKeys THEN intent ELSE "default_responses"

\* what random yields in one generate_response call: the index drawn by
\* random.choices / random.choice (or first of random.sample), the second
\* index of random.sample when random.random() < 0.1 (-1: no mixing),
\* whether random.random() < 0.15 (flourish)
Draws(n) ==
  { [i |-> i, j |-> j, flourish |-> fl] :
      i \in 0..(n - 1), j \in -1..(n - 1), fl \in BOOLEAN }

\* variant: the conservative band draws like the band above it
select_responseDrawn(level, n, rnd) ==
  IF level <= 80 THEN [index |-> rnd.i, mixed |-> -1]
  ELSE IF n > 1 /\ rnd.j >= 0 /\ rnd.i # rnd.j THEN [index |-> rnd.i, mixed |-> rnd.j]
  ELSE [index |-> rnd.i, mixed |-> -1]
\* select_response on a non-empty list of n candidates: responses[0] up to
\* 0.3, a weighted draw up to 0.8, above that a draw or two samples joined
select_response(level, n, rnd) ==
  IF level <= 30 THEN [index |-> 0, mixed |-> -1]
  ELSE IF level <= 80 THEN [index |-> rnd.i, mixed |-> -1]
  ELSE IF n > 1 /\ rnd.j >= 0 /\ rnd.i # rnd.j THEN [index |-> rnd.i, mixed |-> rnd.j]
  ELSE [index |-> rnd.i, mixed |-> -1]

\* the text generate_response returns: the candidate(s) of a list and tier,
\* with a flourish appended above 0.8 when drawn
ReplyText(level, intent, rnd) ==
  LET key == ResponseList(intent)
      tier == get_creativity_tier(level)
      sel == select_response(level, ResponseCount(key, tier), rnd)
  IN [list |-> key, tier |-> tier, index |-> sel.index, mixed |-> sel.mixed,
      flourish |-> level > 80 /\ rnd.flourish]
\* the response as generate_response hands it to add_to_memory: the selected
\* text, before the flourish is appended to the local variable
MemoryText(level, intent, rnd) ==
  [ReplyText(level, intent, rnd) EXCEPT !.flourish = FALSE]

\* A field of a loaded JSON object: absent, of another type than the one
\* load_from_dict tests for, or a value of that type
Absent(dflt) == [has |-> "absent", val |-> dflt]
Other(dflt) == [has |-> "other", val |-> dflt]
Value(v) == [has |-> "value", val |-> v]

EmptyProfile == "{}"
\* to_dict: the three fields of the snapshot
to_dict(e) ==
  [context_memory |-> Value(e.context_memory), user_profile |-> Value(e.user_profile),
   max_memory |-> Value(e.max_memory)]

\* load_from_dict on a dict: data.get("context_memory", []) and
\* data.get("user_profile", {}) replace the field when they are a list / a
\* dict, data.get("max_memory", self.max_memory) is clamped unless int()
\* raises, then the memory is trimmed to the newest max_memory entries
load_from_dict(e, data) ==
  LET mem == IF data.context_memory.has = "absent" THEN << >>
             ELSE IF data.context_memory.has = "other" THEN e.context_memory
             ELSE data.context_memory.val
      prof == IF data.user_profile.has = "absent" THEN EmptyProfile
              ELSE IF data.user_profile.has = "other" THEN e.user_profile
              ELSE data.user_profile.val
      mx == IF data.max_memory.has = "value" THEN Max(5, Min(50, data.max_memory.val))
            ELSE e.max_memory
  IN [e EXCEPT !.context_memory = LastN(mem, mx), !.user_profile = prof, !.max_memory = mx,
               !.streak = 0]

\* the profile file: missing, not a JSON object, or a JSON object
NoData ==
  [context_memory |-> Absent(<< >>), user_profile |-> Absent(EmptyProfile),
   max_memory |-> Absent(0)]
NoFile == [kind |-> "none", data |-> NoData]
Garbage == [kind |-> "garbage", data |-> NoData]
ObjectFile(data) == [kind |-> "object", data |-> data]

\* save_to_disk: json.dump of to_dict; a failure is swallowed, leaving the
\* file as it was (open failed) or truncated (dump failed)
WriteOutcomes == {"written", "open_failed", "dump_failed"}
save_to_disk(e, file, wr) ==
  IF wr = "written" THEN ObjectFile(to_dict(e))
  ELSE IF wr = "dump_failed" THEN Garbage
  ELSE file

\* load_from_disk: nothing without a file, nothing unless json.load yields
\* a dict
load_from_disk(e, file) ==
  IF file.kind = "object" THEN load_from_dict(e, file.data) ELSE e

\* reset_to_defaults / clear_local_memory: context_memory = [], user_profile
\* = {}; clear_disk_data removes the file
Forget(e) == [e EXCEPT !.context_memory = << >>, !.user_profile = EmptyProfile, !.streak = 0]

\* generate_response's effect on the engine: the turn is stamped and stored
Remember(e) ==
  [add_to_memory(e, e.turns + 1) EXCEPT !.turns = e.turns + 1, !.streak = e.streak + 1]

\* a reply of the engine as the history keeps it; call_ai_api's own replies
\* are kept without their wording (LocalReply)
NoText == [list |-> "none", tier |-> "none", index |-> 0, mixed |-> -1, flourish |-> FALSE]
NoReply == [intent |-> "none", level |-> 0, text |-> NoText, stored |-> NoText]
RouterReply == [intent |-> "unread", level |-> 0, text |-> NoText, stored |-> NoText]

\* the engine, the profile file and the last reply after a step of
\* call_ai_api that did (replied) or did not call generate_response
EngineAfter(e, replied) == IF replied THEN Remember(e) ELSE e
FileAfter(e, file, adv, replied) ==
  IF replied /\ adv.remember_local_profile THEN save_to_disk(e, file, "written") ELSE file
SaidAfter(reply, replied) == IF replied THEN RouterReply ELSE reply

\* ------------------------------------------------------------- results
NoResult == [kind |-> "none", body |-> "", using |-> "", tag |-> ""]
Answer(kind, body, using, tag) == [kind |-> kind, body |-> body, using |-> using, tag |-> tag]
RaisedToCaller == Answer("raised", "", "", "")
FallbackName == "Local Conversation Engine"

\* variant: the generic message is returned without the model suffix
OuterExceptBare(model_name) ==
  Answer("trouble", "I'm having trouble connecting to any AI models right now. Please try again later.", "", "")
\* outermost "except Exception" of call_ai_api: the generic message
OuterExcept(model_name) ==
  Answer("trouble", "I'm having trouble connecting to any AI models right now. Please try again later.", model_name, "")

\* auto-switch for continuity: settings_manager.set + update_advanced_settings
\* variant: the switch is not written to the stored settings
SwitchSettingsKept(sm, st, alt_id) == st
SwitchSettings(sm, st, alt_id) == IF sm THEN [st EXCEPT !.current_ai_model = alt_id] ELSE st
\* variant: the switch is not propagated to advanced_settings
SwitchAdvancedStale(adv, alt_id) == adv
SwitchAdvanced(adv, alt_id) == [adv EXCEPT !.current_model = alt_id]

\* model_id as the callers pass it: LunaThread.run passes the settings'
\* current_ai_model; the command-line client and the test call pass none
ModelArgs(sm, st) == IF sm THEN {NoModel, st.current_ai_model} ELSE {NoModel}

\* current_model = model_id or advanced_settings.get('current_model', ...)
ResolveCurrent(model_id, adv) == IF model_id # NoModel THEN model_id ELSE adv.current_model

\* ui_models.get(alt_id, {}).get('name', alt_id)
AltName(ui, alt_id) == IF InCatalog(ui, alt_id) THEN Entry(ui, alt_id).name ELSE alt_id

\* ---------------------------------------------------------------- state
VARIABLES
  smSet,      \* ai_api.settings_manager is not None
  settings,   \* SettingsManager.settings (keys the router reads)
  advanced,   \* ai_api.advanced_settings
  env_alts,   \* HF_ALT_MODELS of the process environment
  cache,      \* SettingsManager model_errors / model_status / persisted errors
  pc,         \* position of the call_ai_api invocation
  rt,         \* locals of the invocation
  g,          \* history of the invocation (calls made)
  result,     \* what the invocation returned
  calls,      \* invocations started so far
  probe,      \* _status_check_running and the ModelStatusWorker threads alive
  engine,     \* ai_api.conversation_engine (LocalConversationEngine)
  profile_file, \* user_data/local_engine_profile.json
  said,       \* the last reply of conversation_engine.generate_response
  picked,     \* the last call of ai_api.set_current_model
  wire,       \* the last request of OpenRouterAPI.query_model and its outcome
  race        \* two cache writers running in different threads, step by step

vars == <<smSet, settings, advanced, env_alts, cache, pc, rt, g, result, calls, probe,
          engine, profile_file, said, picked, wire, race>>

NoLocals ==
  [current_model |-> NoModel, attempts |-> 0, attempt |-> 0,
   did_reload_token |-> FALSE, last_err |-> NoError, cap |-> 0, tried |-> 0,
   list |-> << >>, di |-> 0]

NoProbe == [running |-> FALSE, workers |-> << >>]

\* LocalConversationEngine.__init__ (creativity levels in hundredths);
\* turns: the generate_response calls so far, which stamp the entries;
\* streak: those made since the memory was last resized, loaded or cleared
NewEngine ==
  [creativity_level |-> 70, context_memory |-> << >>, max_memory |-> 10,
   user_profile |-> EmptyProfile, turns |-> 0, streak |-> 0]
NoPick == [model_id |-> NoModel, ret |-> "none", current |-> NoModel]

\* the arguments of an invocation, as the history keeps them
NoInput == [kept |-> FALSE, m |-> {}, search_enabled |-> FALSE, system_enabled |-> FALSE]
KeptInput(m, search_enabled, system_enabled) ==
  [kept |-> TRUE, m |-> m, search_enabled |-> search_enabled,
   system_enabled |-> system_enabled]

\* the argument of generate_response in an invocation of call_ai_api: none,
\* original_message, or f"[SYSTEM: {fallback_msg}] {original_message}"
NoPrompt == "none"
RawPrompt == "original_message"
SyntheticPrompt == "[SYSTEM: fallback_msg] original_message"

NoHistory ==
  [primaryCalls |-> 0, reloads |-> 0, altLog |-> << >>, localCalls |-> 0,
   walk |-> FALSE, cands |-> << >>, primaryOK |-> FALSE, switched |-> FALSE,
   onlyRateLimit |-> TRUE, gotText |-> FALSE, slept |-> 0, prompt |-> NoPrompt,
   searched |-> FALSE, spawned |-> FALSE, input |-> NoInput]

Init ==
  /\ smSet = FALSE
  /\ settings = default_settings
  /\ advanced = default_advanced
  /\ env_alts \in EnvAltChoices
  /\ cache = EmptyCache
  /\ pc = "idle"
  /\ rt = NoLocals
  /\ g = NoHistory
  /\ result = NoResult
  /\ calls = 0
  /\ probe = NoProbe
  /\ engine = NewEngine
  /\ profile_file = NoFile
  /\ said = NoReply
  /\ picked = NoPick
  /\ wire = NoRequest
  /\ race = NoRace


\* ------------------------------------------------- collaborators' actions
\* ai_api.set_settings_manager(manager): wires the manager and copies flags
SetSettingsManager ==
  /\ pc = "idle" /\ ~smSet
  /\ smSet' = TRUE
  /\ advanced' = [enable_search |-> settings.enable_web_search,
                  enable_system_commands |-> settings.enable_system_commands,
                  current_model |-> settings.current_ai_model,
                  remember_local_profile |-> settings.save_chat_history]
  /\ engine' = LET e1 == set_creativity(engine, settings.ai_creativity)
               IN IF settings.save_chat_history THEN load_from_disk(e1, profile_file)
                  ELSE e1
  /\ UNCHANGED <<settings, env_alts, cache, pc, rt, g, result, calls, probe,
               profile_file, said, picked, wire, race>>

\* The recovery settings the settings collaborator may save: the retry
\* settings and the walk settings are varied separately (the walk reads
\* only last_err and the current model of what the retry loop leaves)
RetryConfigs ==
  { [default_settings EXCEPT !.retry_attempts = r, !.auto_fallback = fb] :
      r \in RetryChoices, fb \in BOOLEAN }

WalkConfigs ==
  { [default_settings EXCEPT !.alt_attempt_cap = cap, !.ignore_status_pings = ig,
                             !.available_models = cat] :
      cap \in CapChoices, ig \in BOOLEAN, cat \in {"builtin", "supplied"} }

OrderConfigs ==
  { [default_settings EXCEPT !.alternate_priority = pr, !.available_models = "builtin",
                             !.auto_fallback = fb] :
      pr \in PriorityChoices, fb \in BOOLEAN }
  \cup { [default_settings EXCEPT !.available_models = "empty"] }

ConfigChoices == RetryConfigs \cup WalkConfigs \cup OrderConfigs

\* SettingsDialog.save_settings pushes the creativity and the memory size to
\* the engine: set_ai_creativity, update_advanced_settings -> set_memory_size
PushEngineSettings(e, st) ==
  set_memory_size(set_creativity(e, st.ai_creativity), st.conversation_memory)

\* SettingsDialog.save_settings storing one of the given recovery settings
ConfigureFrom(choices) ==
  /\ pc = "idle" /\ smSet /\ calls = 0 /\ cache.has_key
  /\ [settings EXCEPT !.current_ai_model = LocalEngine] = default_settings
  /\ \E cfg \in choices :
       /\ settings' = [cfg EXCEPT !.current_ai_model = settings.current_ai_model]
       /\ settings' # settings
  /\ engine' = PushEngineSettings(engine, settings')
  /\ UNCHANGED <<smSet, advanced, env_alts, cache, pc, rt, g, result, calls, probe,
               profile_file, said, picked, wire, race>>

Configure == ConfigureFrom(ConfigChoices)
\* the same with the recovery settings left at their defaults and the
\* catalog of the settings in step with the built-in one
SyncedCatalog == { [default_settings EXCEPT !.available_models = "builtin"] }
ConfigureCatalog == ConfigureFrom(SyncedCatalog)

\* select_model(model_id): settings, ai_api.set_current_model, then
\* ai_api.update_advanced_settings with the id as it was passed
SelectModelFrom(ids) ==
  /\ pc = "idle" /\ smSet /\ calls = 0
  /\ \E mid \in ids :
       /\ mid # settings.current_ai_model
       /\ settings' = [settings EXCEPT !.current_ai_model = mid]
       /\ picked' = PickOf(advanced, mid)
       /\ advanced' = [set_current_model(advanced, mid).adv EXCEPT !.current_model = mid]
  /\ UNCHANGED <<smSet, env_alts, cache, pc, rt, g, result, calls, probe,
               engine, profile_file, said, wire, race>>

SelectModel == SelectModelFrom(SelectableIds)

\* SettingsDialog.reset_to_defaults: settings := default_settings.copy(),
\* which has no 'model_errors' key; the in-memory maps are left alone
ResetToDefaults ==
  /\ pc = "idle" /\ smSet /\ calls = 0 /\ cache.has_key
  /\ settings' = default_settings
  /\ cache' = [cache EXCEPT !.has_key = FALSE, !.persisted = [m \in ModelIds |-> NoError]]
  /\ engine' = Forget(engine)
  /\ profile_file' = NoFile
  /\ UNCHANGED <<smSet, advanced, env_alts, pc, rt, g, result, calls, probe, said, picked, wire, race>>

\* on_model_status_results: the worker's result for every non-local model of
\* the UI catalog is written with set_model_status; the worker calls
\* ai_api.check_hf_model_status, which does not exist, so each result is
\* {'status': 'error', 'error': str(AttributeError)}
ProbeTargets(st) ==
  LET cat == CatalogByName(st.available_models)
  IN { cat[i].id : i \in { j \in 1..Len(cat) : cat[j].type # "local" /\ cat[j].id # LocalEngine } }

RECURSIVE ApplyProbe(_, _)
ApplyProbe(c, targets) ==
  IF targets = {} THEN c
  ELSE LET m == CHOOSE x \in targets : TRUE
       IN ApplyProbe(set_model_status(c, m, "error", MsgProbe), targets \ {m})

\* start_model_status_check (timer tick, startup kick, interval change): it
\* returns at once while _status_check_running is set or when the catalog
\* has no remote model; otherwise it sets the flag and starts a worker
\* variant: the running flag is not consulted
StatusCheckNever(p) == FALSE
StatusCheckRunning(p) == p.running

StartModelStatusCheck ==
  /\ pc = "idle" /\ smSet
  /\ probe' = IF StatusCheckRunning(probe) \/ ProbeTargets(settings) = {}
               THEN probe
               ELSE [running |-> TRUE,
                     workers |-> Append(probe.workers,
                                        [ids |-> ProbeTargets(settings), reported |-> FALSE])]
  /\ UNCHANGED <<smSet, settings, advanced, env_alts, cache, pc, rt, g, result, calls,
               engine, profile_file, said, picked, wire, race>>

\* ModelStatusWorker.run ends with results_ready: on_model_status_results
\* writes every result with set_model_status
OnModelStatusResults ==
  /\ pc = "idle"
  /\ \E i \in 1..Len(probe.workers) :
       /\ ~probe.workers[i].reported
       /\ cache' = ApplyProbe(cache, probe.workers[i].ids)
       /\ probe' = [probe EXCEPT !.workers[i].reported = TRUE]
  /\ UNCHANGED <<smSet, settings, advanced, env_alts, pc, rt, g, result, calls,
               engine, profile_file, said, picked, wire, race>>

\* the worker's finished signal: the lambda clears _status_check_running
WorkerFinished ==
  /\ pc = "idle"
  /\ \E i \in 1..Len(probe.workers) :
       /\ probe.workers[i].reported
       /\ probe' = [running |-> FALSE,
                    workers |-> [j \in 1..(Len(probe.workers) - 1) |->
                                   IF j < i THEN probe.workers[j] ELSE probe.workers[j + 1]]]
  /\ UNCHANGED <<smSet, settings, advanced, env_alts, cache, pc, rt, g, result, calls,
               engine, profile_file, said, picked, wire, race>>


\* ------------------------------------------------------------ call_ai_api
\* variant: the fallback answer carries the plain suffix
LocalFallbackPlain(hist) ==
  [res |-> Answer("fallback", LocalReply, FallbackName, ""),
   hist |-> [hist EXCEPT !.localCalls = @ + 1, !.prompt = SyntheticPrompt]]
\* variant: the fallback hands the message itself to generate_response
LocalFallbackRaw(hist) ==
  [res |-> Answer("fallback", LocalReply, FallbackName, "Fallback"),
   hist |-> [hist EXCEPT !.localCalls = @ + 1, !.prompt = RawPrompt]]
\* LocalFallback: generate_response on the synthetic prompt
LocalFallback(hist) ==
  [res |-> Answer("fallback", LocalReply, FallbackName, "Fallback"),
   hist |-> [hist EXCEPT !.localCalls = @ + 1, !.prompt = SyntheticPrompt]]

\* entry: dispatcher rules, then the model branch of the selected model
\* (msgs: the messages the invocation is explored with; keep: whether the
\* history keeps the arguments of the invocation)
CallStartWith(msgs, keep) ==
  /\ pc = "idle" /\ calls < MaxCalls
  /\ calls' = calls + 1
  /\ \E m \in msgs, model_id \in ModelArgs(smSet, settings),
        enable_search \in FlagArgs, enable_system_commands \in FlagArgs,
        spawn \in SpawnOutcomes :
       LET cur == ResolveCurrent(model_id, advanced)
           info == current_model_info(cur)
           search_enabled == FlagOr(enable_search, advanced.enable_search)
           system_enabled == FlagOr(enable_system_commands, advanced.enable_system_commands)
           rule == Dispatch(m, search_enabled, system_enabled,
                            advanced.enable_system_commands)
           sysres == execute_system_command(m, spawn, advanced.enable_system_commands)
           h0 == [NoHistory EXCEPT
                    !.input = IF keep THEN KeptInput(m, search_enabled, system_enabled)
                              ELSE NoInput]
           remote == rule = "general" /\ info.type = "openrouter"
           locals == IF remote
                     THEN [NoLocals EXCEPT !.current_model = cur,
                                           !.attempts = Attempts(smSet, settings)]
                     ELSE [NoLocals EXCEPT !.current_model = cur]
           clr == clear_model_error(cache, cur)
       IN /\ (rule # "syscmd" \/ sysres \notin {"text", "raise"} \/ "open_app" \notin m)
                => spawn = "started"
          /\ rt' = locals
          /\ IF rule = "syscmd"
             THEN /\ result' = IF sysres = "raise" THEN RaisedToCaller
                               ELSE IF sysres = "disabled"
                               THEN Answer("cmd_disabled", "disabled text", info.name, "")
                               ELSE Answer("syscmd", "command text", info.name, "")
                  /\ pc' = "done" /\ cache' = cache
                  /\ g' = [h0 EXCEPT !.spawned = sysres \in {"text", "raise"}]
             ELSE IF rule # "general"
             THEN /\ result' = Answer(rule, "text", info.name, "")
                  /\ pc' = "done" /\ cache' = cache
                  /\ g' = [h0 EXCEPT !.searched = rule = "search"]
             ELSE IF info.type = "openrouter"
             THEN /\ pc' = "primary" /\ g' = h0
                  /\ result' = NoResult /\ cache' = cache
             ELSE \* local model: generate_response, then clear_model_error
                  /\ pc' = "done"
                  /\ g' = [h0 EXCEPT !.localCalls = 1, !.prompt = RawPrompt]
                  /\ cache' = IF smSet THEN clr.cache ELSE cache
                  /\ result' = IF smSet /\ clr.raised THEN OuterExcept(info.name)
                               ELSE Answer("local", LocalReply, info.name, "")
  /\ engine' = EngineAfter(engine, g'.localCalls > g.localCalls)
  /\ profile_file' = FileAfter(engine', profile_file, advanced, g'.localCalls > g.localCalls)
  /\ said' = SaidAfter(said, g'.localCalls > g.localCalls)
  /\ UNCHANGED <<smSet, settings, advanced, env_alts, probe, picked, wire, race>>

\* call_ai_api as the main specification explores it: the router is reached
\* by the messages no rule matches, each rule by a message of its own
CallStart == CallStartWith(PlainMessages, FALSE)
\* call_ai_api on every message, its arguments kept in the history
CallStartKept == CallStartWith(Messages, TRUE)

\* what follows the retry loop: the alternates walk up to its first request,
\* or LocalFallback.  Yields the next pc, locals, history and result.
AfterPrimary(locals, hist, last_err) ==
  LET cur == locals.current_model
      cap == AltCap(smSet, settings)
      am == alt_models(smSet, settings, cur)
      tried1 == Phase1Tried(Len(am), cap)
      dl == IF tried1 < cap THEN direct_list(smSet, settings, env_alts, cur) ELSE << >>
      nd == NextDirect(dl, 1, tried1, cap, cur)
      enter == EnterWalk(smSet, settings, last_err)
      h1 == [hist EXCEPT !.walk = enter, !.cands = IF enter THEN am ELSE << >>]
  IN IF enter /\ nd # 0
     THEN [pc |-> "alts",
           rt |-> [locals EXCEPT !.last_err = last_err, !.cap = cap, !.tried = tried1,
                                 !.list = dl, !.di = nd],
           g |-> h1, result |-> NoResult]
     ELSE [pc |-> "done",
           rt |-> [locals EXCEPT !.last_err = last_err, !.cap = IF enter THEN cap ELSE 0,
                                 !.tried = IF enter THEN tried1 ELSE 0],
           g |-> LocalFallback(h1).hist, result |-> LocalFallback(h1).res]

\* one iteration of "for attempt in range(attempts)": the request, the
\* success path, or the except handler with its retry decision
PrimaryAttempt ==
  /\ pc = "primary"
  /\ \E out \in query_model, reloadOK \in BOOLEAN :
       LET cur == rt.current_model
           nonblank == out.kind = "ok" /\ out.text # ""
           clr == clear_model_error(cache, cur)
           success == nonblank /\ (~smSet \/ ~clr.raised)
           c0 == IF nonblank /\ smSet THEN clr.cache ELSE cache
           err == IF nonblank THEN MsgKeyError
                  ELSE IF out.kind = "ok" THEN MsgEmpty ELSE out.msg
           c1 == IF smSet THEN set_model_error(c0, cur, err).cache ELSE c0
           doReload == IsAuthError(err) /\ ~rt.did_reload_token
           reloaded == doReload /\ reloadOK
           cont == reloaded \/ IsTransient(err)
           h0 == [g EXCEPT !.primaryCalls = @ + 1, !.slept = @ + backoff(rt.attempt),
                           !.onlyRateLimit = @ /\ out.kind = "exc" /\ out.msg = MsgRateLimit,
                           !.gotText = @ \/ nonblank]
           h1 == [h0 EXCEPT !.reloads = IF doReload THEN @ + 1 ELSE @]
           l1 == [rt EXCEPT !.attempt = @ + 1, !.last_err = err,
                            !.did_reload_token = @ \/ reloaded]
           nxt == AfterPrimary(l1, h1, err)
       IN /\ (~doReload \/ success) => reloadOK
          /\ IF success
             THEN /\ cache' = c0
                  /\ result' = Answer("primary", out.text, current_model_info(cur).name, "")
                  /\ pc' = "done" /\ rt' = rt
                  /\ g' = [h0 EXCEPT !.primaryOK = TRUE]
             ELSE IF cont /\ rt.attempt + 1 < rt.attempts
             THEN /\ cache' = c1 /\ pc' = "primary" /\ rt' = l1 /\ g' = h1
                  /\ result' = NoResult
             ELSE /\ cache' = c1 /\ pc' = nxt.pc /\ rt' = nxt.rt /\ g' = nxt.g
                  /\ result' = nxt.result
  /\ engine' = EngineAfter(engine, g'.localCalls > g.localCalls)
  /\ profile_file' = FileAfter(engine', profile_file, advanced, g'.localCalls > g.localCalls)
  /\ said' = SaidAfter(said, g'.localCalls > g.localCalls)
  /\ UNCHANGED <<smSet, settings, advanced, env_alts, calls, probe, picked, wire, race>>

\* one iteration of the direct loop: the request to direct_list[di]
AltAttempt ==
  /\ pc = "alts"
  /\ \E out \in query_model :
       LET alt_id == rt.list[rt.di]
           ui == ui_available_models(smSet, settings)
           h0 == [g EXCEPT !.altLog = Append(@, [id |-> alt_id, out |-> out])]
           how == DirectHandler(out)
           tried2 == IF how = "count" THEN rt.tried + 1 ELSE rt.tried
           nd == IF how = "abort" THEN 0
                 ELSE NextDirect(rt.list, rt.di + 1, tried2, rt.cap, rt.current_model)
       IN IF out.kind = "ok"
          THEN /\ settings' = SwitchSettings(smSet, settings, alt_id)
               /\ advanced' = SwitchAdvanced(advanced, alt_id)
               /\ result' = Answer("alt", out.text, AltName(ui, alt_id), "Auto-switched")
               /\ pc' = "done" /\ rt' = rt
               /\ g' = [h0 EXCEPT !.switched = TRUE]
          ELSE IF nd # 0
          THEN /\ pc' = "alts" /\ rt' = [rt EXCEPT !.tried = tried2, !.di = nd]
               /\ g' = h0 /\ result' = NoResult
               /\ UNCHANGED <<settings, advanced>>
          ELSE /\ pc' = "done" /\ rt' = [rt EXCEPT !.tried = tried2]
               /\ g' = LocalFallback(h0).hist /\ result' = LocalFallback(h0).res
               /\ UNCHANGED <<settings, advanced>>
  /\ engine' = EngineAfter(engine, g'.localCalls > g.localCalls)
  /\ profile_file' = FileAfter(engine', profile_file, advanced, g'.localCalls > g.localCalls)
  /\ said' = SaidAfter(said, g'.localCalls > g.localCalls)
  /\ UNCHANGED <<smSet, env_alts, cache, calls, probe, picked, wire, race>>

\* the caller takes the returned string; the invocation's locals are gone
Return ==
  /\ pc = "done"
  /\ pc' = "idle" /\ rt' = NoLocals /\ g' = NoHistory /\ result' = NoResult
  /\ UNCHANGED <<smSet, settings, advanced, env_alts, cache, calls, probe,
               engine, profile_file, said, picked, wire, race>>

\* ------------------------------------------- the cache's writers, called
\* with any id, status and message (the contract of SettingsManager)
CacheIds == {Gpt20, DeepSeek}
StatusArgs == {"available", "paused", "loading", "error"}
ErrorArgs == {NoError, EmptyMessage, MsgProbe}
CacheMessages == {MsgPaused, MsgPausedUpper, MsgRateLimit, EmptyMessage}

SetModelStatus ==
  /\ \E mid \in CacheIds, status \in StatusArgs, error \in ErrorArgs :
       cache' = set_model_status(cache, mid, status, error)
  /\ UNCHANGED <<smSet, settings, advanced, env_alts, pc, rt, g, result, calls, probe,
               engine, profile_file, said, picked, wire, race>>

SetModelError ==
  /\ \E mid \in CacheIds, msg \in CacheMessages :
       cache' = set_model_error(cache, mid, msg).cache
  /\ UNCHANGED <<smSet, settings, advanced, env_alts, pc, rt, g, result, calls, probe,
               engine, profile_file, said, picked, wire, race>>

ClearModelError ==
  /\ \E mid \in CacheIds :
       cache' = clear_model_error(cache, mid).cache
  /\ UNCHANGED <<smSet, settings, advanced, env_alts, pc, rt, g, result, calls, probe,
               engine, profile_file, said, picked, wire, race>>

NextStatus ==
  \/ SetSettingsManager
  \/ ResetToDefaults
  \/ SetModelStatus
  \/ SetModelError
  \/ ClearModelError

SpecStatus == Init /\ [][NextStatus]_vars

\* --------------------------------------------------- concurrent writers
\* LunaThread.run calls call_ai_api in a thread of its own, whose retry loop
\* writes set_model_error or clear_model_error for the current model; the
\* probe results are written by the main thread with set_model_status.
\* No lock is taken by the writers.
RaceId == Gpt20
RouteWrites ==
  { Writer("set_model_error", "", msg) : msg \in {MsgPaused, MsgRateLimit} }
    \cup { Writer("clear_model_error", "", NoError) }
ProbeWrites ==
  { Writer("set_model_status", "available", NoError),
    Writer("set_model_status", "paused", NoError),
    Writer("set_model_status", "error", MsgProbe) }

\* an earlier invocation has left an error for the model
EarlierError ==
  /\ pc = "idle" /\ ~race.issued /\ cache = EmptyCache
  /\ cache' = set_model_error(cache, RaceId, MsgRateLimit).cache
  /\ UNCHANGED <<smSet, settings, advanced, env_alts, pc, rt, g, result, calls,
                 probe, engine, profile_file, said, picked, wire, race>>

\* a route thread and the delivery of probe results are about to write
WritersStart ==
  /\ pc = "idle" /\ ~race.issued
  /\ \E rw \in RouteWrites, pw \in ProbeWrites :
       race' = [thread |-> rw, main |-> pw, start |-> cache, issued |-> TRUE]
  /\ UNCHANGED <<smSet, settings, advanced, env_alts, cache, pc, rt, g, result, calls,
                 probe, engine, profile_file, said, picked, wire>>

\* the next statement of the writer of the route thread
RouteWriterStep ==
  /\ race.issued /\ race.thread.step < 4
  /\ cache' = WriterStep(cache, RaceId, race.thread).cache
  /\ race' = [race EXCEPT !.thread = WriterStep(cache, RaceId, race.thread).w]
  /\ UNCHANGED <<smSet, settings, advanced, env_alts, pc, rt, g, result, calls,
                 probe, engine, profile_file, said, picked, wire>>

\* the next statement of the writer of the main thread
ProbeWriterStep ==
  /\ race.issued /\ race.main.step < 4
  /\ cache' = WriterStep(cache, RaceId, race.main).cache
  /\ race' = [race EXCEPT !.main = WriterStep(cache, RaceId, race.main).w]
  /\ UNCHANGED <<smSet, settings, advanced, env_alts, pc, rt, g, result, calls,
                 probe, engine, profile_file, said, picked, wire>>

NextRace ==
  \/ EarlierError
  \/ WritersStart
  \/ RouteWriterStep
  \/ ProbeWriterStep

SpecRace == Init /\ [][NextRace]_vars

\* ------------------------------------------------ the Remote Model Client
\* openrouter_api.query_model(model_id, ...) answered by one response
QueryModel ==
  /\ pc = "idle"
  /\ \E model_id \in {DeepSeek, Gpt20, Gpt120}, r \in Responses :
       wire' = [model_id |-> model_id, response |-> r, out |-> query_model_of(r)]
  /\ UNCHANGED <<smSet, settings, advanced, env_alts, cache, pc, rt, g, result, calls,
                 probe, engine, profile_file, said, picked, race>>

NextClient == QueryModel

SpecClient == Init /\ [][NextClient]_vars

\* ------------------------------------------- the caller-supplied catalog
\* the settings provider hands in a catalog of its own; the user selects
\* one of the remote models it shows
SuppliedCatalog ==
  { [default_settings EXCEPT !.available_models = cat] : cat \in {"builtin", "supplied"} }
ConfigureSupplied == ConfigureFrom(SuppliedCatalog)
SelectSupplied == SelectModelFrom({Gpt20, ExtraModel})

NextCatalog ==
  \/ SetSettingsManager
  \/ ConfigureSupplied
  \/ SelectSupplied
  \/ CallStart
  \/ PrimaryAttempt
  \/ AltAttempt
  \/ Return

SpecCatalog == Init /\ [][NextCatalog]_vars

\* ------------------------------------------------- the model selection
\* ids passed to set_current_model: catalog keys, legacy ids with and
\* without provider prefix and ':free' suffix, other spellings, a display
\* name, the part of a key after the slash, a key with a prefix, no model
RawIds ==
  {LocalEngine, Gpt20, UnknownModel,
   "deepseek/deepseek-chat-v3-0324:free", "nex-agi/deepseek-v3.1-nex-n1:free",
   "deepseek-chat-v3-0324:free", "deepseek/deepseek-chat-v3-0324", "deepseek-chat-v3-0324",
   "OpenAI/GPT-OSS-20B:FREE", "mistral-7b", "Mistral 7B", "gpt-oss-120b:free",
   "my-local_engine"}

\* ai_api.set_current_model(model_id)
SetCurrentModel ==
  /\ pc = "idle"
  /\ \E model_id \in RawIds :
       /\ advanced' = set_current_model(advanced, model_id).adv
       /\ picked' = PickOf(advanced, model_id)
  /\ UNCHANGED <<smSet, settings, env_alts, cache, pc, rt, g, result, calls, probe,
                 engine, profile_file, said, wire, race>>

NextAlias ==
  \/ SetSettingsManager
  \/ SelectModel
  \/ SetCurrentModel

SpecAlias == Init /\ [][NextAlias]_vars

\* ------------------------------------------------ the Local Responder
\* arguments and files the engine is explored with
SizeArgs == {0, 60}
CreativityArgs == {0, 10, 30, 31, 80, 81, 150}
OldEntries == <<101, 102, 103, 104, 105, 106, 107>>
MemoryFields == {Absent(<< >>), Other(<< >>), Value(<< >>), Value(SubSeq(OldEntries, 1, 2)),
                 Value(OldEntries)}
ProfileFields == {Absent(EmptyProfile), Other(EmptyProfile), Value("{name: Sam}")}
MaxMemoryFields == {Absent(0), Other(0), Value(3), Value(6), Value(60)}
\* a full snapshot, the same with one field varied, an empty object, and a
\* file that holds no JSON object
FullData ==
  [context_memory |-> Value(SubSeq(OldEntries, 1, 2)), user_profile |-> Value("{name: Sam}"),
   max_memory |-> Value(6)]
FileChoices ==
  {Garbage, ObjectFile(NoData)}
  \cup { ObjectFile([FullData EXCEPT !.context_memory = cm]) : cm \in MemoryFields }
  \cup { ObjectFile([FullData EXCEPT !.user_profile = up]) : up \in ProfileFields }
  \cup { ObjectFile([FullData EXCEPT !.max_memory = mm]) : mm \in MaxMemoryFields }

\* conversation_engine.generate_response(message): the reply is selected,
\* the turn stored and, when remember_local_profile is set, saved
\* (intents, writes: the categories and write outcomes explored; keep:
\* whether the wording of the reply is kept, for every draw of random;
\* limit: the calls explored)
GenerateResponseWith(intents, writes, keep, limit) ==
  /\ pc = "idle" /\ engine.turns < limit
  /\ \E intent \in intents, wr \in writes :
       \E rnd \in IF keep
                  THEN Draws(ResponseCount(ResponseList(intent),
                                           get_creativity_tier(engine.creativity_level)))
                  ELSE Draws(1) :
         /\ said' = IF keep
                    THEN [intent |-> intent, level |-> engine.creativity_level,
                          text |-> ReplyText(engine.creativity_level, intent, rnd),
                          stored |-> MemoryText(engine.creativity_level, intent, rnd)]
                    ELSE RouterReply
         /\ engine' = Remember(engine)
         /\ profile_file' = IF advanced.remember_local_profile
                            THEN save_to_disk(engine', profile_file, wr)
                            ELSE profile_file
  /\ UNCHANGED <<smSet, settings, advanced, env_alts, cache, pc, rt, g, result, calls,
                 probe, picked, wire, race>>

\* update_advanced_settings({'conversation_memory': size})
SetMemorySize ==
  /\ pc = "idle"
  /\ \E size \in SizeArgs : engine' = set_memory_size(engine, size)
  /\ UNCHANGED <<smSet, settings, advanced, env_alts, cache, pc, rt, g, result, calls,
                 probe, profile_file, said, picked, wire, race>>

\* set_ai_creativity(level)
SetCreativity ==
  /\ pc = "idle"
  /\ \E level \in CreativityArgs : engine' = set_creativity(engine, level)
  /\ UNCHANGED <<smSet, settings, advanced, env_alts, cache, pc, rt, g, result, calls,
                 probe, profile_file, said, picked, wire, race>>

\* conversation_engine.save_to_disk()
SaveToDisk ==
  /\ pc = "idle"
  /\ \E wr \in WriteOutcomes : profile_file' = save_to_disk(engine, profile_file, wr)
  /\ UNCHANGED <<smSet, settings, advanced, env_alts, cache, pc, rt, g, result, calls,
                 probe, engine, said, picked, wire, race>>

\* conversation_engine.load_from_disk()
LoadFromDisk ==
  /\ pc = "idle"
  /\ engine' = load_from_disk(engine, profile_file)
  /\ UNCHANGED <<smSet, settings, advanced, env_alts, cache, pc, rt, g, result, calls,
                 probe, profile_file, said, picked, wire, race>>

\* SettingsDialog.clear_local_memory
ClearLocalMemory ==
  /\ pc = "idle"
  /\ engine' = Forget(engine)
  /\ profile_file' = NoFile
  /\ UNCHANGED <<smSet, settings, advanced, env_alts, cache, pc, rt, g, result, calls,
                 probe, said, picked, wire, race>>

\* the profile file as an earlier session or an editor left it, found when
\* the program starts
ProfileFileLeft ==
  /\ pc = "idle" /\ engine = NewEngine /\ profile_file = NoFile
  /\ profile_file' \in FileChoices
  /\ UNCHANGED <<smSet, settings, advanced, env_alts, cache, pc, rt, g, result, calls,
                 probe, engine, said, picked, wire, race>>

\* the engine's memory: turns of one category, their wording dropped
Turn == GenerateResponseWith({"default"}, WriteOutcomes, FALSE, MaxTurns)

NextEngine ==
  \/ ProfileFileLeft
  \/ Turn
  \/ SetMemorySize
  \/ SaveToDisk
  \/ LoadFromDisk
  \/ ClearLocalMemory

SpecEngine == Init /\ [][NextEngine]_vars

\* the engine's wording: replies to every category at every creativity
\* level, over an empty and a non-empty memory
MaxReplies == 2   \* generate_response calls per behaviour whose wording is kept
Respond == GenerateResponseWith(Intents, {"written"}, TRUE, MaxReplies)

NextReply ==
  \/ SetCreativity
  \/ Respond

SpecReply == Init /\ [][NextReply]_vars

\* ------------------------------------------- the dispatcher's invocations
\* SettingsDialog.save_settings with the two feature check boxes changed:
\* the settings are stored and pushed to advanced_settings at once
SaveFeatureToggles ==
  /\ pc = "idle" /\ smSet /\ calls = 0
  /\ \E web \in BOOLEAN, sys \in BOOLEAN :
       /\ settings' = [settings EXCEPT !.enable_web_search = web,
                                       !.enable_system_commands = sys]
       /\ settings' # settings
       /\ advanced' = [enable_search |-> web, enable_system_commands |-> sys,
                       current_model |-> settings.current_ai_model,
                       remember_local_profile |-> settings.save_chat_history]
  /\ engine' = PushEngineSettings(engine, settings')
  /\ UNCHANGED <<smSet, env_alts, cache, pc, rt, g, result, calls, probe,
               profile_file, said, picked, wire, race>>

\* invocations whose arguments are kept, under any setting of the toggles
NextDispatch ==
  \/ SetSettingsManager
  \/ SelectModel
  \/ ConfigureCatalog
  \/ SaveFeatureToggles
  \/ CallStartKept
  \/ PrimaryAttempt
  \/ AltAttempt
  \/ Return

SpecDispatch == Init /\ [][NextDispatch]_vars

\* invocations are explored from the states in which no status worker is
\* alive: a worker touches the cache only when its results are delivered
Next ==
  \/ SetSettingsManager
  \/ Configure
  \/ SelectModel
  \/ ResetToDefaults
  \/ StartModelStatusCheck
  \/ OnModelStatusResults
  \/ WorkerFinished
  \/ (probe = NoProbe /\ CallStart)
  \/ PrimaryAttempt
  \/ AltAttempt
  \/ Return

Spec == Init /\ [][Next]_vars

\* ------------------------------------------------------- fair scheduling
\* every request of the Remote Model Client returns or times out, so an
\* invocation that is inside the retry loop or the walk takes its next step
ConfigureLive == ConfigureFrom(RetryConfigs \cup SyncedCatalog)

NextLive ==
  \/ SetSettingsManager
  \/ ConfigureLive
  \/ SelectModel
  \/ CallStart
  \/ PrimaryAttempt
  \/ AltAttempt
  \/ Return

SpecLive ==
  Init /\ [][NextLive]_vars /\ WF_vars(PrimaryAttempt) /\ WF_vars(AltAttempt)


\* ============================================================ properties
Done == pc = "done"
FallbackAnswer == Answer("fallback", LocalReply, FallbackName, "Fallback")

\* requests of the walk that failed with something other than a 404
NonSkipped(log) ==
  Cardinality({ i \in 1..Len(log) : log[i].out.kind = "exc" /\ log[i].out.status_code # 404 })
InvokedIds(log) == { log[i].id : i \in 1..Len(log) }
SeqRange(q) == { q[i] : i \in 1..Len(q) }

\* C1: call_ai_api returns a response string for every message and model
\* id and never raises to its caller.
C1_NeverRaises == Done => result.kind # "raised"

\* C2: when the primary remote model ended in failure and no alternate
\* returned a response, the call ends in LocalFallback: the Local Responder
\* was invoked once and the answer carries the (Fallback) suffix.
C2_FailureEndsInLocalFallback ==
  (Done /\ g.primaryCalls >= 1 /\ ~g.primaryOK /\ ~g.switched)
    => (result = FallbackAnswer /\ g.localCalls = 1)

C2_Witness ==
  Done /\ g.primaryCalls >= 1 /\ g.altLog # << >> /\ ~g.switched /\ result = FallbackAnswer

\* C3: with retry_attempts = N >= 1, auto_fallback off and a primary that
\* fails with RateLimit on every request, exactly N requests go to the
\* primary, none to an alternate, and LocalFallback is taken.
C3_RateLimitRetriesExactlyN ==
  (Done /\ smSet /\ g.primaryCalls >= 1 /\ g.onlyRateLimit
        /\ ~settings.auto_fallback /\ settings.retry_attempts >= 1)
    => (g.primaryCalls = settings.retry_attempts /\ g.altLog = << >>
        /\ result = FallbackAnswer)

C3_Witness ==
  Done /\ smSet /\ g.onlyRateLimit /\ ~settings.auto_fallback
       /\ settings.retry_attempts = 3 /\ g.primaryCalls = 3 /\ result = FallbackAnswer

\* C4: the credential reload is attempted at most once per invocation.
C4_ReloadAtMostOnce == g.reloads <= 1

\* C5: with alt_attempt_cap = 2 and three candidates, a walk that ends
\* without a response has either sent a request to every candidate or has
\* seen two requests fail with something other than a 404 (a 404 costs no
\* budget, so a first candidate that 404s leaves both others to be tried).
C5_NotFoundKeepsBudget ==
  (Done /\ g.walk /\ rt.cap = 2 /\ Len(g.cands) = 3 /\ ~g.switched)
    => (SeqRange(g.cands) \subseteq InvokedIds(g.altLog) \/ NonSkipped(g.altLog) >= 2)

\* C6: the alternate attempts that failed with something other than a 404
\* never exceed alt_attempt_cap, in the code's counter and in the requests
\* sent, and no alternate is requested once the counter has reached the cap.
C6_AltBudgetRespected ==
  /\ rt.tried <= rt.cap
  /\ NonSkipped(g.altLog) <= rt.cap
  /\ pc = "alts" => (rt.tried < rt.cap /\ NonSkipped(g.altLog) < rt.cap)

C6_Witness ==
  Done /\ g.walk /\ rt.cap >= 1 /\ NonSkipped(g.altLog) = 1 /\ result = FallbackAnswer

\* C7: an alternate is requested only when auto_fallback is on,
\* alt_attempt_cap is positive and the primary's last error was "paused" or
\* "loading" or ignore_status_pings is on; with ignore_status_pings on (and
\* the other two conditions) every primary failure enters the walk.
C7_WalkGating ==
  /\ (pc = "alts" \/ g.altLog # << >>)
       => /\ AutoFallback(smSet, settings)
          /\ AltCap(smSet, settings) > 0
          /\ (HasPaused(rt.last_err) \/ HasLoading(rt.last_err) \/ IgnorePings(smSet, settings))
  /\ (Done /\ g.primaryCalls >= 1 /\ ~g.primaryOK /\ IgnorePings(smSet, settings)
           /\ AutoFallback(smSet, settings) /\ AltCap(smSet, settings) > 0)
       => g.walk

C7_Witness ==
  /\ g.altLog # << >> /\ IgnorePings(smSet, settings)
  /\ ~HasPaused(rt.last_err) /\ ~HasLoading(rt.last_err)

C9_PrimarySuccessClearsError ==
  (Done /\ g.gotText) =>
    /\ result = Answer("primary", "reply", current_model_info(rt.current_model).name, "")
    /\ get_model_error(cache, rt.current_model) = NoError
    /\ get_model_status(cache, rt.current_model) = "available"

\* C10: when an alternate returns a response, on return the cache holds no
\* stored error for that alternate.
C10_AltSuccessClearsError ==
  (Done /\ g.switched) =>
    get_model_error(cache, g.altLog[Len(g.altLog)].id) = NoError

\* C11: every failed remote request of an invocation, to the primary or to an
\* alternate, is recorded in the status cache for the model that failed: on
\* return the cache holds, for each model that failed, the error of its most
\* recent failed request.
C11_FailuresRecorded ==
  (Done /\ smSet) =>
    /\ (g.primaryCalls >= 1 /\ ~g.primaryOK)
         => get_model_error(cache, rt.current_model) = rt.last_err
    /\ \A i \in 1..Len(g.altLog) :
         g.altLog[i].out.kind = "exc"
           => get_model_error(cache, g.altLog[i].id) = g.altLog[i].out.msg

\* C12: an empty or whitespace-only 200 response is never returned as an
\* answer and counts as a failure that is retried: the retry loop is left on
\* an empty response only when all attempts have been used.
C12_EmptyResponseRetried ==
  Done =>
    /\ result.kind \in {"primary", "alt"} => result.body # ""
    /\ (g.primaryCalls >= 1 /\ ~g.primaryOK /\ rt.last_err = MsgEmpty)
         => g.primaryCalls = rt.attempts

\* C13: a selected model whose descriptor is local is answered by the Local
\* Responder alone: no remote request, no reload, no walk, the answer carries
\* the descriptor's display name without the fallback tag, and no error stays
\* stored for the id.
C13_LocalModelPath ==
  (Done /\ g.localCalls = 1 /\ g.primaryCalls = 0) =>
    /\ result = Answer("local", LocalReply, current_model_info(rt.current_model).name, "")
    /\ g.reloads = 0 /\ g.altLog = << >> /\ ~g.walk
    /\ smSet => get_model_error(cache, rt.current_model) = NoError

\* C14: every string call_ai_api returns, on every path, ends with a
\* "[Using: ...]" suffix naming a model.
C14_UsingSuffix ==
  (Done /\ result # RaisedToCaller) => result.using # ""

C14_Witness ==
  Done /\ result.kind = "trouble" /\ result.using = FallbackName

\* C15: after any sequence of cache writes, a model whose status reads
\* 'available' has no stored error, and set_model_status(id, 'available')
\* leaves no stored error for id whatever was stored and whatever error
\* argument comes with it.
C15_AvailableHasNoError ==
  /\ \A mid \in ModelIds :
       get_model_status(cache, mid) = "available" => get_model_error(cache, mid) = NoError
  /\ \A mid \in CacheIds, error \in ErrorArgs :
       get_model_error(set_model_status(cache, mid, "available", error), mid) = NoError

\* one model marked available after the 'model_errors' key was dropped,
\* another one still carrying an error
C15_Witness ==
  /\ cache.status[Gpt20] = "available" /\ get_model_error(cache, Gpt20) = NoError
  /\ get_model_error(cache, DeepSeek) # NoError /\ ~cache.has_key

\* C16: after any sequence of cache writes, every model whose status is not
\* 'available' has a stored error with a non-empty message.
C16_UnavailableHasMessage ==
  \A mid \in ModelIds :
    get_model_status(cache, mid) # "available"
      => get_model_error(cache, mid) \notin {NoError, EmptyMessage}

\* C17: at most one ModelStatusWorker is alive at a time and the running
\* flag is set while it is; a start request made while the flag is set starts
\* nothing; after the worker has finished a new cycle can start.
C17_SingleFlight ==
  /\ [](Len(probe.workers) <= 1 /\ (probe.workers # << >> => probe.running))
  /\ [][probe.running => Len(probe'.workers) <= Len(probe.workers)]_vars

\* a second cycle in flight after the first one delivered its results
C17_Witness ==
  /\ Len(probe.workers) = 1 /\ ~probe.workers[1].reported /\ probe.running
  /\ get_model_error(cache, Gpt20) = MsgProbe

\* ------------------------------------------- the dispatcher's properties
\* an invocation in progress or just answered whose arguments are kept
Kept == pc # "idle" /\ g.input.kept
SearchAnswers == {"search", "search_disabled"}
SystemAnswers == {"syscmd", "cmd_disabled", "raised"}
\* the rule that decided the invocation ("general": the model router)
DecidedBy ==
  IF pc = "done" /\ result.kind \in {"identity", "weather"} THEN result.kind
  ELSE IF pc = "done" /\ result.kind \in SearchAnswers THEN "search"
  ELSE IF pc = "done" /\ result.kind \in SystemAnswers THEN "system"
  ELSE "general"
\* what each rule matches, in the words of the dispatcher's contract
SearchMatches(m, search_enabled) ==
  IF search_enabled THEN SearchPerformed(m) ELSE "searchkw" \in m
SystemMatches(m, system_enabled, adv_system) ==
  IF system_enabled THEN ~adv_system \/ CommandKeyword(m) ELSE CommandKeyword(m)

\* C18: the rules are evaluated in the order model-identity, weather, search,
\* system-command, general, and the first rule that matches decides: a
\* message with an identity phrase is answered as an identity query, one with
\* 'weather' and no identity phrase as a weather query whatever search or
\* command keywords it also holds, and each later rule decides only the
\* messages that no earlier rule matches.
C18_RuleOrder ==
  Kept =>
    LET m == g.input.m
        se == g.input.search_enabled
        sy == g.input.system_enabled
        adv == advanced.enable_system_commands
    IN DecidedBy =
         (IF "identity" \in m THEN "identity"
          ELSE IF "weather" \in m THEN "weather"
          ELSE IF SearchMatches(m, se) THEN "search"
          ELSE IF SystemMatches(m, sy, adv) THEN "system"
          ELSE "general")

\* a weather message that also holds a search keyword and a command, with
\* search and system commands enabled, answered as a weather query
C18_Witness ==
  /\ Kept /\ pc = "done" /\ result.kind = "weather"
  /\ g.input.m = {"weather", "searchkw", "open_app"}
  /\ g.input.search_enabled /\ g.input.system_enabled

\* C19: while search is disabled for an invocation, enhanced_web_search is
\* not invoked, and a message with one of 'search', 'google', 'find',
\* 'look up' that neither the identity nor the weather rule matches is
\* answered with the search-disabled message: it reaches neither the
\* system-command rule nor the model router.
C19_SearchDisabled ==
  (Kept /\ ~g.input.search_enabled) =>
    /\ ~g.searched
    /\ ("searchkw" \in g.input.m /\ {"identity", "weather"} \cap g.input.m = {})
         => (pc = "done" /\ result.kind = "search_disabled" /\ ~g.spawned
             /\ g.primaryCalls = 0 /\ g.localCalls = 0)

\* 'find ... open notepad' with search disabled and commands enabled
C19_Witness ==
  /\ Kept /\ pc = "done" /\ result.kind = "search_disabled"
  /\ g.input.m = {"searchkw", "open_app"}
  /\ ~g.input.search_enabled /\ g.input.system_enabled
  /\ advanced.enable_system_commands

\* system commands are disabled by the flag of the invocation or by the
\* advanced settings the executor reads
SystemDisabled == ~g.input.system_enabled \/ ~advanced.enable_system_commands

\* C20: while system commands are disabled, call_ai_api executes no OS
\* command, and a message that reaches the system-command rule with a
\* command keyword is answered with a commands-disabled message: it does not
\* reach the model router.
C20_CommandsDisabled ==
  (Kept /\ SystemDisabled) =>
    /\ ~g.spawned
    /\ (/\ CommandKeyword(g.input.m)
        /\ {"identity", "weather"} \cap g.input.m = {}
        /\ ~SearchMatches(g.input.m, g.input.search_enabled))
         => (pc = "done" /\ result.kind = "cmd_disabled"
             /\ g.primaryCalls = 0 /\ g.localCalls = 0)

\* 'open notepad' passed with enable_system_commands=True while the advanced
\* settings have system commands switched off
C20_Witness ==
  /\ Kept /\ pc = "done" /\ result.kind = "cmd_disabled" /\ ~g.spawned
  /\ "open_app" \in g.input.m
  /\ g.input.system_enabled /\ ~advanced.enable_system_commands

\* ------------------------------------------- the Local Responder's properties
\* C21: after any sequence of turns, set_memory_size and load operations,
\* 5 <= max_memory <= 50 and the memory holds at most max_memory entries;
\* once max_memory or more turns in a row were stored, the memory is exactly
\* the last max_memory turns, oldest first.
C21_MemoryBounded ==
  /\ 5 <= engine.max_memory /\ engine.max_memory <= 50
  /\ Len(engine.context_memory) <= engine.max_memory
  /\ engine.streak >= engine.max_memory
       => engine.context_memory =
            [i \in 1..engine.max_memory |-> engine.turns - engine.max_memory + i]

\* six turns in a row over a loaded memory that is limited to five entries
C21_Witness ==
  /\ engine.max_memory = 5 /\ engine.streak = 6 /\ engine.turns = 6
  /\ engine.context_memory = <<2, 3, 4, 5, 6>>
  /\ engine.user_profile # EmptyProfile

\* C22: at every creativity level up to 0.3 the reply to an input is
\* candidate[0] of the conservative list of the input's category (the
\* default list for a category without a list of its own), whatever random
\* draws and whatever the memory holds: the text depends on the category
\* alone.
C22_ConservativeDeterministic ==
  (said.intent \in Intents /\ said.level <= 30) =>
    said.text = [list |-> ResponseList(said.intent), tier |-> "conservative",
                 index |-> 0, mixed |-> -1, flourish |-> FALSE]

\* a second reply, at level 0.3 exactly, to a category without a list of its
\* own, given over a memory that holds the first turn
C22_Witness ==
  /\ said.intent = "compliments" /\ said.level = 30
  /\ said.text.list = "default_responses" /\ said.text.index = 0
  /\ engine.turns = 2 /\ Len(engine.context_memory) = 2

\* C23: for every reachable state of the engine, saving the snapshot and
\* loading it back yields the same context_memory, user_profile and
\* max_memory, a second save and load changes nothing, and a field that the
\* loaded object lacks keeps its in-memory value.
C23_RoundTrip ==
  LET file1 == save_to_disk(engine, profile_file, "written")
      e1 == load_from_disk(engine, file1)
      file2 == save_to_disk(e1, file1, "written")
      e2 == load_from_disk(e1, file2)
  IN /\ to_dict(e1) = to_dict(engine)
     /\ file2 = file1 /\ to_dict(e2) = to_dict(e1)
     /\ \A file \in FileChoices :
          LET e3 == load_from_disk(engine, file)
          IN file.kind = "object" =>
               /\ file.data.context_memory.has = "absent"
                    => e3.context_memory = LastN(engine.context_memory, e3.max_memory)
               /\ file.data.user_profile.has = "absent"
                    => e3.user_profile = engine.user_profile
               /\ file.data.max_memory.has = "absent"
                    => e3.max_memory = engine.max_memory

\* ---------------------------------------- the model selection's properties
\* ids of the "deepseek-chat-v3-0324" style
LegacyStyleIds ==
  {"deepseek/deepseek-chat-v3-0324:free", "deepseek-chat-v3-0324:free",
   "deepseek/deepseek-chat-v3-0324", "deepseek-chat-v3-0324"}

\* the entries an id stands for: equal after normalisation to the entry's
\* id, to its display name, or to the part of its id after the slash
AliasOf(model_id) ==
  LET target == norm(Chars(model_id))
  IN Ids(SelectSeq(get_available_models,
                   LAMBDA e : \/ target = norm(Chars(e.id))
                              \/ target = norm(Chars(e.name))
                              \/ target = norm(AfterLastSlash(Chars(e.id)))))

\* C24: set_current_model selects an exact catalog key as is; otherwise the
\* first catalog entry whose normalized id, normalized display name or id
\* suffix after the slash equals the normalized id; with no such entry it
\* returns failure and leaves the selection unchanged; after a success the
\* current model is a catalog key
C24_ResolveAlias ==
  (picked.ret # "none" /\ picked.model_id \notin LegacyStyleIds \cup LegacyIds) =>
    /\ InCatalog(get_available_models, picked.model_id)
          => picked.ret = "True" /\ picked.current = picked.model_id
    /\ (~InCatalog(get_available_models, picked.model_id) /\ AliasOf(picked.model_id) # << >>)
          => picked.ret = "True" /\ picked.current = AliasOf(picked.model_id)[1]
    /\ (~InCatalog(get_available_models, picked.model_id) /\ AliasOf(picked.model_id) = << >>)
          => /\ picked.ret = "False"
             /\ set_current_model(advanced, picked.model_id).adv = advanced
    /\ picked.ret = "True" => InCatalog(get_available_models, picked.current)

\* C25: a legacy id of the "deepseek-chat-v3-0324" style, with or without
\* the provider prefix and the ':free' suffix, is resolved to
\* 'deepseek/deepseek-r1-0528:free' and selected
C25_LegacyResolves ==
  picked.model_id \in LegacyStyleIds => picked.ret = "True" /\ picked.current = DeepSeek

\* -------------------------------------- the supplied catalog's properties
\* the catalog the settings provider supplies, when it is not empty
Supplied == smSet /\ CatalogByName(settings.available_models) # << >>
RemoteIds(cat) == { cat[i].id : i \in { k \in 1..Len(cat) : cat[k].type = "openrouter" } }

\* C26: with a non-empty supplied catalog the router takes the selected
\* model's descriptor from that catalog (a remote entry is called remotely,
\* an answer of the model carries the entry's display name) and enumerates
\* the alternates from it
C26_SuppliedCatalogUsed ==
  (Done /\ Supplied /\ result.kind \in {"local", "primary", "alt", "fallback", "trouble"}
        /\ InCatalog(CatalogByName(settings.available_models), rt.current_model)) =>
    LET ui == CatalogByName(settings.available_models)
        info == Entry(ui, rt.current_model)
    IN /\ info.type = "openrouter" => (g.primaryCalls >= 1 /\ result.kind # "local")
       /\ result.kind \in {"local", "primary"} => result.using = info.name
       /\ \A i \in 1..Len(g.altLog) : g.altLog[i].id \in RemoteIds(ui) \ {rt.current_model}

\* --------------------------------------- the Remote Model Client's properties
\* the kind of a failure, as the router can tell it from the exception:
\* its class, its status_code and the paused / loading messages
ErrorKind(out) ==
  IF out.cls = "Timeout" THEN "Timeout"
  ELSE IF out.status_code \in {401, 403} THEN "Auth"
  ELSE IF out.status_code = 429 THEN "RateLimit"
  ELSE IF out.status_code = 400 THEN "BadRequest"
  ELSE IF out.status_code = 404 THEN "NotFound"
  ELSE IF HasPaused(out.msg) THEN "Paused"
  ELSE IF HasLoading(out.msg) THEN "Transient"
  ELSE "Unknown"

\* C27: every non-success response is classified by the table: 401/403 Auth,
\* 429 RateLimit, 400 BadRequest, 404 NotFound (status_code 404); of the
\* other responses a text containing 'paused' Paused, 503/524 or a text
\* containing 'loading' Transient; a network timeout Timeout; anything else
\* Unknown
C27_ErrorTable ==
  (wire.response.net # "none" /\ wire.response.status_code # 200) =>
    LET r == wire.response
        kind == ErrorKind(wire.out)
        other == r.net = "answered" /\ r.status_code \in {500, 503, 524}
    IN /\ wire.out.kind = "exc"
       /\ r.net = "timeout" => kind = "Timeout"
       /\ r.net = "error" => kind = "Unknown"
       /\ r.status_code \in {401, 403} => kind = "Auth"
       /\ r.status_code = 429 => kind = "RateLimit"
       /\ r.status_code = 400 => kind = "BadRequest"
       /\ r.status_code = 404 => (kind = "NotFound" /\ wire.out.status_code = 404)
       /\ (other /\ TextHasPaused(r.text)) => kind = "Paused"
       /\ (other /\ ~TextHasPaused(r.text)
                 /\ (TextHasLoading(r.text) \/ r.status_code \in {503, 524}))
            => kind = "Transient"
       /\ (r.status_code = 500 /\ ~TextHasPaused(r.text) /\ ~TextHasLoading(r.text))
            => kind = "Unknown"

\* ------------------------------------------------ the retry loop's properties
\* a message that names no rate limit, no paused and no loading endpoint
NonTransient(m) == ~HasPaused(m) /\ ~HasLoading(m) /\ ~HasRateLimit(m)

C29_ReloadRetriesFree ==
  /\ [][(pc = "primary" /\ ~rt.did_reload_token /\ rt'.did_reload_token)
          => (pc' = "primary" /\ rt'.current_model = rt.current_model)]_vars
  /\ [](Done /\ rt.did_reload_token /\ ~g.primaryOK /\ rt.last_err = MsgRateLimit
          => g.primaryCalls = rt.attempts + 1)

\* --------------------------------------------- the alternates' properties
\* C30: every alternate a request is sent to is a remote model of the
\* catalog other than the failed primary, and no alternate is sent two
\* requests in one invocation; local models and the primary are never
\* requested as alternates
C30_AlternatesDistinctRemote ==
  LET ui == ui_available_models(smSet, settings)
      log == g.altLog
  IN /\ \A i \in 1..Len(log) :
          /\ log[i].id \in RemoteIds(ui)
          /\ log[i].id # rt.current_model
          /\ Entry(ui, log[i].id).provider # "local"
     /\ \A i, j \in 1..Len(log) : i # j => log[i].id # log[j].id

\* the environment lists a remote and a local model: the remote one is
\* requested, the local one is not
C30_Witness ==
  /\ Done /\ g.walk /\ env_alts = <<Gpt120, LocalEngine>>
  /\ rt.current_model = Gpt20 /\ Len(g.altLog) = 1 /\ g.altLog[1].id = Gpt120
  /\ g.altLog[1].out.kind = "exc"

\* the order the priority list gives the remote models of the catalog other
\* than cur: the named ones in the order of the list, then the others in
\* catalog order
PriorityOrder(ui, cur, pr) ==
  LET remotes == Ids(SelectSeq(ui, LAMBDA e : e.type = "openrouter" /\ e.id # cur))
      named == SelectSeq(pr, LAMBDA a : a \in SeqRange(remotes))
      others == SelectSeq(remotes, LAMBDA a : a \notin SeqRange(pr))
  IN named \o others
LogIds(log) == [i \in 1..Len(log) |-> log[i].id]

\* C31: the alternates are requested in priority order: those named in
\* alternate_priority first, in the order of the list, the others after
\* them in catalog order; with an empty list in catalog order
C31_PriorityOrder ==
  LET order == PriorityOrder(ui_available_models(smSet, settings), rt.current_model,
                             Priority(smSet, settings))
      ids == LogIds(g.altLog)
  IN Len(ids) <= Len(order) /\ ids = SubSeq(order, 1, Len(ids))

\* ------------------------------------------ the concurrent writers' properties
\* the entry of a model: stored error, status, persisted error
CacheEntry(c, mid) == <<c.errors[mid], c.status[mid], c.persisted[mid]>>
WritersDone == race.issued /\ race.thread.step = 4 /\ race.main.step = 4

\* C32: once both concurrent writers have returned, the entry of the model
\* is what one of the two writes leaves when it is called alone after the
\* other (last writer wins): 'available' with no stored error, or another
\* status with a stored error
C32_LastWriterWins ==
  WritersDone =>
    /\ CacheEntry(cache, RaceId) \in
         { CacheEntry(WriterAlone(WriterAlone(race.start, RaceId, race.thread), RaceId, race.main), RaceId),
           CacheEntry(WriterAlone(WriterAlone(race.start, RaceId, race.main), RaceId, race.thread), RaceId) }
    /\ get_model_status(cache, RaceId) = "available"
         <=> get_model_error(cache, RaceId) = NoError

\* ------------------------------------------------ termination of the router
\* what an invocation can still do: the attempts left in the retry loop and
\* the whole walk after them, or the candidates left in the walk
StepsLeft ==
  IF pc = "primary" THEN (rt.attempts - rt.attempt) + Cardinality(ModelIds) + 1
  ELSE IF pc = "alts" THEN Len(rt.list) - rt.di + 1
  ELSE 0

\* C33: every invocation terminates: an invocation inside the retry loop or
\* the walk reaches Done; it makes at most retry_attempts + 1 primary
\* calls, no more alternate calls than the catalog has entries and at most
\* one Local Responder call; every step of the loop and of the walk uses up
\* an attempt or a candidate
C33_Terminates ==
  /\ (pc \in {"primary", "alts"}) ~> Done
  /\ [](pc # "idle" =>
          /\ g.primaryCalls <= (IF smSet /\ settings.retry_attempts > 0
                                THEN settings.retry_attempts ELSE 2) + 1
          /\ Len(g.altLog) <= Len(ui_available_models(smSet, settings))
          /\ g.localCalls <= 1)
  /\ [][(pc \in {"primary", "alts"}) => (StepsLeft' < StepsLeft)]_vars

\* three failed requests to the primary, then the Local Responder
C33_Witness ==
  Done /\ smSet /\ settings.retry_attempts = 3 /\ g.primaryCalls = 3 /\ g.localCalls = 1

\* C34: after generate_response returns text r, the entry it appended to the
\* memory holds r as its response: the text stored (and persisted) is the
\* text returned to the caller, at every creativity level.
C34_StoredIsReturned ==
  (said.intent \in Intents) =>
    /\ said.stored = said.text
    /\ Len(engine.context_memory) >= 1
    /\ engine.context_memory[Len(engine.context_memory)] = engine.turns

\* 2 * (1 + ... + n)
RECURSIVE TwiceSumTo(_)
TwiceSumTo(n) == IF n <= 0 THEN 0 ELSE 2 * n + TwiceSumTo(n - 1)

\* C35: in the retry loop nothing is slept before the first request, exactly
\* 2*k seconds are slept before the request of the iteration with index
\* k >= 1, and after N requests to the primary model the sleeps of the
\* invocation add up to 2 * (1 + ... + (N - 1)) seconds.
C35_LinearBackoff ==
  /\ [](pc # "idle" =>
          g.slept = IF g.primaryCalls = 0 THEN 0 ELSE TwiceSumTo(g.primaryCalls - 1))
  /\ [][(pc = "primary" /\ g'.primaryCalls = g.primaryCalls + 1) =>
          (g'.slept - g.slept = IF g.primaryCalls = 0 THEN 0 ELSE 2 * g.primaryCalls)]_vars

\* three requests to the primary model, each failed with a transient error
C35_Witness ==
  /\ pc = "done" /\ g.primaryCalls = 3 /\ g.slept = 6
  /\ IsTransient(rt.last_err) /\ ~rt.did_reload_token

\* C36: a step of an invocation of call_ai_api changes the selection
\* (settings' current_ai_model, advanced_settings' current_model) only when
\* it is the step in which an alternate returned a response, and then both
\* name that alternate; every other outcome (primary success, local model,
\* fallback, a message the dispatcher handled, the generic message) leaves
\* both as they were.
C36_SelectionFrame ==
  /\ [][(pc' # "idle" /\ (settings'.current_ai_model # settings.current_ai_model
                           \/ advanced'.current_model # advanced.current_model))
          => (result'.kind = "alt" /\ pc = "alts")]_vars
  /\ [](result.kind = "alt" =>
          /\ advanced.current_model = g.altLog[Len(g.altLog)].id
          /\ smSet => settings.current_ai_model = g.altLog[Len(g.altLog)].id)
  /\ [][(pc' = "done" /\ pc # "done" /\ result'.kind # "alt") =>
          (settings'.current_ai_model = settings.current_ai_model
           /\ advanced'.current_model = advanced.current_model)]_vars

\* an alternate answered after the selected model failed and the stored
\* selection moved to it
C36_Witness ==
  /\ pc = "done" /\ result.kind = "alt" /\ smSet /\ g.primaryCalls >= 1
  /\ settings.current_ai_model # rt.current_model
  /\ settings.current_ai_model = advanced.current_model

\* the outcomes in which a remote model or the dispatcher supplied the text
RemoteOrDispatcher ==
  {"primary", "alt", "identity", "weather", "search", "search_disabled", "syscmd",
   "cmd_disabled"}

\* C37: an invocation of call_ai_api calls generate_response at most once,
\* and only for a local model (on the message itself) or in the fallback (on
\* the synthetic "[SYSTEM: ...] message" prompt); the call appends one entry
\* to the memory; when a remote model or the dispatcher supplied the text no
\* call was made, and a step without a call leaves the memory and the
\* profile file as they were.
C37_LocalResponderOnce ==
  /\ [](pc # "idle" =>
          /\ g.localCalls <= 1
          /\ g.localCalls = 1 <=> g.prompt # NoPrompt
          /\ g.prompt = SyntheticPrompt <=> result.kind = "fallback"
          /\ g.prompt = RawPrompt =>
                (current_model_info(rt.current_model).type = "local"
                 /\ result.kind \in {"local", "trouble"})
          /\ result.kind \in RemoteOrDispatcher => g.localCalls = 0)
  /\ [][(pc' # "idle" /\ g'.localCalls = g.localCalls) =>
          (engine' = engine /\ profile_file' = profile_file)]_vars
  /\ [][(pc' # "idle" /\ g'.localCalls # g.localCalls) =>
          (/\ g'.localCalls = g.localCalls + 1
           /\ engine'.context_memory = Append(engine.context_memory, engine'.turns)
           /\ pc' = "done")]_vars

\* the fallback after a failed primary request, answered on the synthetic
\* prompt and written to the profile file
C37_Witness ==
  /\ pc = "done" /\ result.kind = "fallback" /\ g.primaryCalls >= 1
  /\ g.prompt = SyntheticPrompt /\ Len(engine.context_memory) = 1
  /\ advanced.remember_local_profile /\ profile_file.kind = "object"

\* C38: an invocation on a selected id that is no key of the built-in
\* catalog, with a message the dispatcher leaves to the model, sends no
\* request to a remote model, calls generate_response once and returns its
\* text with the suffix of "Local Conversation Engine".
C38_UnknownIdIsLocal ==
  (/\ pc = "done"
   /\ ~InCatalog(get_available_models, rt.current_model)
   /\ result.kind \notin RemoteOrDispatcher /\ result.kind # "raised")
  => /\ g.primaryCalls = 0 /\ Len(g.altLog) = 0 /\ g.localCalls = 1
     /\ result = Answer("local", LocalReply, "Local Conversation Engine", "")

\* C39: for an answered request with a status other than 200, query_model
\* reads the error text before the status code: a text containing "paused"
\* is raised as paused, else a text containing "loading" (or status 503 or
\* 524) as loading, both with status_code -1 whatever the status was; only a
\* text with neither word has its status code mapped and kept.
C39_TextBeforeStatus ==
  (wire.response.net = "answered" /\ wire.response.status_code # 200) =>
    IF TextHasPaused(wire.response.text)
    THEN wire.out = Raised("HFRequestError", -1, MsgPaused)
    ELSE IF TextHasLoading(wire.response.text) \/ wire.response.status_code \in {503, 524}
    THEN wire.out = Raised("HFRequestError", -1, MsgLoading)
    ELSE /\ wire.out.status_code = wire.response.status_code
         /\ wire.out.msg \notin {MsgPaused, MsgLoading}

\* a 404 whose text names both words: raised as paused, not as NotFound
C39_Witness ==
  /\ wire.response.status_code = 404 /\ wire.response.text = "paused while loading"
  /\ wire.out.status_code = -1 /\ wire.out.msg = MsgPaused

\* 'paused' in error.lower(), character by character
LowerSeq(cs) == [i \in 1..Len(cs) |-> lower(cs[i])]
Contains(cs, sub) ==
  \E i \in 1..(Len(cs) - Len(sub) + 1) : SubSeq(cs, i, i + Len(sub) - 1) = sub
PausedInLower(m) == Contains(LowerSeq(Chars(m)), Chars("paused"))

\* C40: set_model_error(id, message) leaves the id with status 'paused' if
\* the lower-cased message contains 'paused' and with status 'error'
\* otherwise, never 'loading' or 'available'; the message replaces the id's
\* previous error, and the status, error and persisted error of every other
\* id stay as they were.
C40_SetModelErrorFrame ==
  \A mid \in CacheIds, msg \in CacheMessages :
    LET c2 == set_model_error(cache, mid, msg).cache
    IN /\ c2.status[mid] = IF PausedInLower(msg) THEN "paused" ELSE "error"
       /\ c2.status[mid] \notin {"loading", "available"}
       /\ c2.errors[mid] = msg
       /\ cache.has_key => c2.persisted[mid] = msg
       /\ \A o \in ModelIds \ {mid} :
            /\ c2.status[o] = cache.status[o]
            /\ c2.errors[o] = cache.errors[o]
            /\ c2.persisted[o] = cache.persisted[o]

\* a message in capitals recorded for one id while another id keeps the
\* status a probe gave it
C40_Witness ==
  /\ cache.status[Gpt20] = "paused" /\ cache.errors[Gpt20] = MsgPausedUpper
  /\ cache.status[DeepSeek] = "loading" /\ cache.errors[DeepSeek] = MsgProbe

====
